---- MODULE Spec2Model ----
(***************************************************************************)
(* Model of the Task state machine of abipy/flowtk/tasks.py: one Task, its *)
(* working directory, the process attached to it, and the operations a     *)
(* caller (launcher, scheduler, flow) can invoke on it.                    *)
(*                                                                         *)
(* Every method is an operator from a world w = [t, d, p, calls, log] to a *)
(* result [w, exc, ret]: t holds the Task's attributes, d the files of the *)
(* working directory, p the attached process, calls the manager and hook   *)
(* calls made so far by the running operation, log the entries it has      *)
(* added to the Task's history (the history is append-only and no method   *)
(* reads it, so the model keeps what the running operation adds). exc is   *)
(* the exception that leaves the method ("none" when it returns), ret the  *)
(* returned value.                                                         *)
(*                                                                         *)
(* A property of an operation is stated over every reachable state and     *)
(* every input of the operation: the operator is applied to World, the     *)
(* current state, and the property speaks of its result.                   *)
(***************************************************************************)
EXTENDS Integers, Sequences, FiniteSets, TLC

VARIABLES task, wd, proc, manager, hints, heap, flow

vars == <<task, wd, proc, manager, hints, heap, flow>>

(***************************************************************************)
(* Bounds of the model.                                                    *)
(***************************************************************************)
MaxRestarts == 2
MaxErrors == 1

\* The longest list of adapter descriptors and of configurations.
MaxAdapters == 2

MaxConfs == 3

\* The events of a report and the registered event handlers.
MaxEvents == 2

MaxHandlers == 2

(***************************************************************************)
(* Statuses.                                                               *)
(***************************************************************************)
Statuses ==
    {"INIT", "LOCKED", "READY", "SUB", "RUN", "DONE",
     "ABICRITICAL", "QCRITICAL", "ERROR", "UNCONVERGED", "OK"}

StatusRank(s) ==
    CASE s = "INIT" -> 1
      [] s = "LOCKED" -> 2
      [] s = "READY" -> 3
      [] s = "SUB" -> 4
      [] s = "RUN" -> 5
      [] s = "DONE" -> 6
      [] s = "ABICRITICAL" -> 7
      [] s = "QCRITICAL" -> 8
      [] s = "ERROR" -> 9
      [] s = "UNCONVERGED" -> 10
      [] s = "OK" -> 11

Families == {"AbinitTask", "ManyBodyTask", "CollinearScfTask", "CustomTask"}

\* gwmem as the input file can give it: the default 11, or 01.
GwmemInputs == {1, 11}

(***************************************************************************)
(* Results of a method call. Returning(r, ret) returns ret after the call  *)
(* r, Raising(r, exc) raises exc after it, both unless r has raised. The   *)
(* statements that follow a call are written as a local operator of the    *)
(* call's result.                                                          *)
(***************************************************************************)
Ok(w, ret) == [w |-> w, exc |-> "none", ret |-> ret]

Raise(w, exc) == [w |-> w, exc |-> exc, ret |-> "none"]

Returning(r, ret) == IF r.exc # "none" THEN r ELSE Ok(r.w, ret)

Raising(r, exc) == IF r.exc # "none" THEN r ELSE Raise(r.w, exc)

Called(w, what) == [w EXCEPT !.calls = Append(@, what)]

\* set_status that adds its entry to the history whether or not the status
\* has changed (C38 depends on the test of changed).
Logged_Unconditionally(w, changed, status, msg) ==
    [w EXCEPT !.log = Append(@, [st |-> status, msg |-> msg])]

\* history.info(...) of set_status: the entry is appended to the entries that
\* the running operation has added to the Task's history.
Logged(w, changed, status, msg) ==
    IF changed THEN [w EXCEPT !.log = Append(@, [st |-> status, msg |-> msg])]
    ELSE w

\* history.pop(): the newest entry goes; "older" marks the loss of an entry
\* that an earlier operation had added.
Popped(log) ==
    IF log = <<>> THEN <<[st |-> "none", msg |-> "older entry popped"]>>
    ELSE SubSeq(log, 1, Len(log) - 1)

(***************************************************************************)
(* Task.returncode: the value of _returncode, 0 when it was never set.     *)
(***************************************************************************)
ReturnCode(w) == IF w.t.rc = "unset" THEN "0" ELSE w.t.rc

(***************************************************************************)
(* Task.set_status up to and including the S_DONE callback. The operations *)
(* that call set_status with a constant status other than S_OK run exactly *)
(* this part.                                                              *)
(***************************************************************************)
\* The assignments of set_status to the Task; changed is status != _status.
StatusSet(t, changed, status) ==
    [t EXCEPT !.status = status,
              !.dt.start = IF status = "RUN" THEN TRUE ELSE @,
              !.dt.submission = IF changed /\ status = "SUB" THEN TRUE ELSE @]

\* set_status without the test of S_LOCKED (C1 depends on the test).
SetStatusCore_NoLockCheck(w, status, msg) ==
    Ok(Logged([w EXCEPT !.t = StatusSet(@, status # w.t.status, status)],
              status # w.t.status, status, msg), status)

SetStatusCore(w, status, msg) ==
    IF w.t.status = "LOCKED" \/ status = "LOCKED"
    THEN Raise(w, "RuntimeError")
    ELSE Ok(Logged([w EXCEPT !.t = StatusSet(@, status # w.t.status, status)],
                   status # w.t.status, status, msg), status)

(***************************************************************************)
(* TaskManager.launch: refuses a locked task, builds the task, submits the *)
(* job script and records the submission. submit is the adapter's answer   *)
(* to submit_to_queue: "ok" or "maxlaunches" (MaxNumLaunchesError).        *)
(* The process handle is returned to the caller, who may store it.         *)
(***************************************************************************)
\* launch that does not record the submission in the status (C5 depends on
\* the record).
Launch_NoSubmitRecord(w, submit) ==
    IF w.t.status = "LOCKED"
    THEN Raise(w, "ValueError")
    ELSE IF submit = "maxlaunches"
    THEN Raising(SetStatusCore(Called(w, "submit_refused"), "ERROR",
                               "max_num_launches reached"),
                 "MaxNumLaunchesError")
    ELSE Ok([Called(w, "submit") EXCEPT !.t.qjob = TRUE], "process")

Launch(w, submit) ==
    IF w.t.status = "LOCKED"
    THEN Raise(w, "ValueError")
    ELSE IF submit = "maxlaunches"
    THEN Raising(SetStatusCore(Called(w, "submit_refused"), "ERROR",
                               "max_num_launches reached"),
                 "MaxNumLaunchesError")
    ELSE LET SetQjob(r) == IF r.exc # "none" THEN r
                           ELSE Ok([r.w EXCEPT !.t.qjob = TRUE], "process")
         IN SetQjob(SetStatusCore(Called(w, "submit"), "SUB", "Submitted to queue"))

(***************************************************************************)
(* Task._restart(submit=False): READY, one more restart, start-lock marker *)
(* removed. TaskDateTimes.reset() rebinds its local name self and leaves   *)
(* the timestamps of the Task as they are.                                 *)
(***************************************************************************)
DateTimesReset(dt) == dt

\* _restart that leaves the counter of the restarts alone (C19 depends on
\* the increment).
RestartNoSubmit_NoCount(w) ==
    LET Count(r) == IF r.exc # "none" THEN r
                    ELSE Ok([r.w EXCEPT !.t.dt = DateTimesReset(@),
                                        !.d.lock = FALSE], "False")
    IN Count(SetStatusCore(w, "READY", "Restarted"))

RestartNoSubmit(w) ==
    LET Count(r) == IF r.exc # "none" THEN r
                    ELSE Ok([r.w EXCEPT !.t.num_restarts = @ + 1,
                                        !.t.dt = DateTimesReset(@),
                                        !.d.lock = FALSE], "False")
    IN Count(SetStatusCore(w, "READY", "Restarted"))

(***************************************************************************)
(* AbinitTask.reset_from_scratch: output, log, stderr, qout and qerr are   *)
(* moved to the _reset directory, the start-lock marker is removed, then   *)
(* _restart(submit=False).                                                 *)
(***************************************************************************)
ResetFromScratch(w) ==
    RestartNoSubmit([w EXCEPT !.d.out = FALSE, !.d.log = "absent",
                              !.d.stderr = "absent", !.d.qout = FALSE,
                              !.d.qerr = "absent", !.d.lock = FALSE,
                              !.t.dt = DateTimesReset(@)])

(***************************************************************************)
(* Task.get_event_report("log"): None when neither the log nor the abort   *)
(* file exists; a parse error sets ABICRITICAL and yields a report holding *)
(* the exception as an error. The result's ret is the kind of report.      *)
(***************************************************************************)
GetEventReport(w) ==
    IF w.d.log = "absent"
    THEN IF ~w.d.abort THEN Ok(w, "None") ELSE Ok(w, "errors")
    ELSE IF w.d.log = "garbled"
    THEN Returning(SetStatusCore(w, "ABICRITICAL",
                                 "Exception while parsing ABINIT events"),
                   "errors")
    ELSE IF w.d.abort /\ w.d.log = "running" THEN Ok(w, "errors")
    ELSE Ok(w, w.d.log)

(***************************************************************************)
(* AbinitTask.fix_abicritical. handlers is what the registered event       *)
(* handlers do with the events of the report: "none" (no handler is        *)
(* registered), "nofix" (no handler fixes an event), "fix" (at least one   *)
(* handler fixes an event).                                                *)
(***************************************************************************)
FixAbicritical(w, handlers) ==
    IF handlers = "none"
    THEN Returning(SetStatusCore(Called(w, "no_handlers"), "ERROR",
                                 "Empty list of event handlers"), "0")
    ELSE LET Handle(g) ==
                 IF g.exc # "none" THEN g
                 ELSE IF g.ret = "None"
                 THEN Returning(SetStatusCore(g.w, "ERROR",
                                              "get_event_report returned None"),
                                "0")
                 ELSE IF handlers = "fix"
                 THEN Returning(ResetFromScratch(Called(g.w, "handle_task_event")),
                                "1")
                 ELSE Returning(SetStatusCore(Called(g.w, "handlers_failed"), "ERROR",
                                              "AbiCritical events that could not be fixed"),
                                "0")
         IN Handle(GetEventReport(w))

(***************************************************************************)
(* The loop of fix_abicritical over the events of the report and the       *)
(* registered handlers. An event is a warning or an error; a handler is    *)
(* the kinds of event it can handle (can_handle) and what its              *)
(* handle_task_event does: "fix" (a true result), "nofix" (a false         *)
(* result), "raise". Handled(events, handlers, k) is count, done and the   *)
(* invocations made once k pairs of an event and a handler have been gone  *)
(* through, the handlers within the events.                                *)
(***************************************************************************)
EventKinds == {"warning", "error"}

HandlerKinds ==
    {[can_handle |-> {"error"}, does |-> "fix"],
     [can_handle |-> {"warning"}, does |-> "fix"],
     [can_handle |-> {"warning", "error"}, does |-> "nofix"],
     [can_handle |-> {"warning", "error"}, does |-> "raise"]}

\* The loop that does not look at done (C27 depends on the test).
RECURSIVE Handled_NoDoneTest(_, _, _)
Handled_NoDoneTest(events, handlers, k) ==
    IF k = 0 THEN [count |-> 0, done |-> {}, calls |-> <<>>]
    ELSE LET j == ((k - 1) \div Len(handlers)) + 1
             i == ((k - 1) % Len(handlers)) + 1
             Pair(st) ==
                IF events[j] \notin handlers[i].can_handle THEN st
                ELSE IF handlers[i].does = "fix"
                THEN [count |-> st.count + 1,
                      done |-> st.done \cup {i},
                      calls |-> Append(st.calls, [handler |-> i, event |-> j])]
                ELSE [st EXCEPT !.calls = Append(@, [handler |-> i, event |-> j])]
         IN Pair(Handled_NoDoneTest(events, handlers, k - 1))

RECURSIVE Handled(_, _, _)
Handled(events, handlers, k) ==
    IF k = 0 THEN [count |-> 0, done |-> {}, calls |-> <<>>]
    ELSE LET j == ((k - 1) \div Len(handlers)) + 1
             i == ((k - 1) % Len(handlers)) + 1
             Pair(st) ==
                IF events[j] \notin handlers[i].can_handle \/ i \in st.done THEN st
                ELSE IF handlers[i].does = "fix"
                THEN [count |-> st.count + 1,
                      done |-> st.done \cup {i},
                      calls |-> Append(st.calls, [handler |-> i, event |-> j])]
                ELSE [st EXCEPT !.calls = Append(@, [handler |-> i, event |-> j])]
         IN Pair(Handled(events, handlers, k - 1))

HandlerLoop(events, handlers) ==
    Handled(events, handlers, Len(events) * Len(handlers))

\* The test of count that takes any handler for one that fixed (C28 depends
\* on count).
HandlersDo_CountIgnored(events, handlers) ==
    IF handlers = <<>> THEN "none" ELSE "fix"

\* What the handlers do with the events, as FixAbicritical takes it.
HandlersDo(events, handlers) ==
    IF handlers = <<>> THEN "none"
    ELSE IF HandlerLoop(events, handlers).count > 0 THEN "fix"
    ELSE "nofix"

FixAbicriticalWith(w, events, handlers) ==
    FixAbicritical(w, HandlersDo(events, handlers))

(***************************************************************************)
(* AbinitTask.autoparal_run. inp.autoparal is policy.autoparal and         *)
(* inp.max_cores is manager.max_cores; probe is what the probe run does:   *)
(* "crash" (the shell launch raises), "hints" (the output holds the hint   *)
(* block), "late" (the first parse fails, the second succeeds), "nohints"  *)
(* (both parses fail); inp.select is the answer of select_qadapter.        *)
(***************************************************************************)
AutoparalVars == {"autoparal", "max_ncpus", "mem_test"}

\* The two attempts to parse the hints, the second after a pause.
Parsed(w, probe) ==
    IF probe = "hints" THEN Called(w, "parse")
    ELSE IF probe = "late" THEN Called(Called(w, "parse_failed"), "parse")
    ELSE Called(Called(w, "parse_failed"), "parse_failed")

\* The steps after the probe run without the finalization: the status is
\* not reset and the files of the probe are not removed (C32 depends on
\* the finalization).
AfterProbe_NoFinalization(w, inp, probe) ==
    IF probe = "nohints" THEN Ok(Parsed(w, probe), "2")
    ELSE IF inp.select = "notfound"
    THEN Raise([Called(Parsed(w, probe), "select_failed")
                  EXCEPT !.t.vars = @ \cup {"paral_kgb"}, !.t.pconfs = TRUE],
               "RuntimeError")
    ELSE Ok([Called(Parsed(w, probe), "select")
               EXCEPT !.t.vars = @ \cup {"paral_kgb", "optconf"},
                      !.t.pconfs = TRUE], "0")

\* The steps after the probe run without the return on the second failure
\* to parse (C30 depends on the return).
AfterProbe_NoParseReturn(w, inp, probe) ==
    IF inp.select = "notfound"
    THEN Raise([Called(Parsed(w, probe), "select_failed")
                  EXCEPT !.t.vars = @ \cup {"paral_kgb"}, !.t.pconfs = TRUE],
               "RuntimeError")
    ELSE LET Clean(r) == IF r.exc # "none" THEN r
                         ELSE Ok([r.w EXCEPT !.d.out = FALSE, !.d.log = "absent",
                                             !.d.stderr = "absent"], "0")
         IN Clean(SetStatusCore([Called(Parsed(w, probe), "select")
                                   EXCEPT !.t.vars = @ \cup {"paral_kgb", "optconf"},
                                          !.t.pconfs = TRUE],
                                "INIT", "finished autoparal run"))

\* After the probe run: the hints are parsed, paral_kgb and pconfs are set,
\* a configuration is selected, the status goes back to INIT and the files
\* of the probe run are removed.
AfterProbe(w, inp, probe) ==
    IF probe = "nohints" THEN Ok(Parsed(w, probe), "2")
    ELSE IF inp.select = "notfound"
    THEN Raise([Called(Parsed(w, probe), "select_failed")
                  EXCEPT !.t.vars = @ \cup {"paral_kgb"}, !.t.pconfs = TRUE],
               "RuntimeError")
    ELSE LET Clean(r) == IF r.exc # "none" THEN r
                         ELSE Ok([r.w EXCEPT !.d.out = FALSE, !.d.log = "absent",
                                             !.d.stderr = "absent"], "0")
         IN Clean(SetStatusCore([Called(Parsed(w, probe), "select")
                                   EXCEPT !.t.vars = @ \cup {"paral_kgb", "optconf"},
                                          !.t.pconfs = TRUE],
                                "INIT", "finished autoparal run"))

\* autoparal_run without the early return for a manager that reaches one
\* core only (C13 depends on the return).
AutoparalRun_NoCoreCheck(w, inp, probe) ==
    IF inp.autoparal = 0 THEN Ok(w, "0")
    ELSE IF inp.autoparal # 1 THEN Raise(w, "NotImplementedError")
    ELSE IF w.t.status # "LOCKED" /\ probe = "crash"
    THEN Raise(Called([w EXCEPT !.t.vars = @ \cup AutoparalVars], "probe_crashed"),
               "Exception")
    ELSE LET \* history.pop(), process.wait(), input.remove_vars(...)
             Probed(r) ==
                 IF r.exc # "none" THEN r
                 ELSE AfterProbe([r.w EXCEPT
                                    !.calls = SubSeq(@, 1, Len(@) - 1) \o <<"probe">>,
                                    !.log = Popped(@),
                                    !.d.out = TRUE, !.d.log = "running",
                                    !.d.stderr = "empty",
                                    !.t.vars = @ \ AutoparalVars],
                                 inp, probe)
         IN Probed(Launch([w EXCEPT !.t.vars = @ \cup AutoparalVars], "ok"))

AutoparalRun(w, inp, probe) ==
    IF inp.autoparal = 0 THEN Ok(w, "0")
    ELSE IF inp.autoparal # 1 THEN Raise(w, "NotImplementedError")
    ELSE IF inp.max_cores = 1 THEN Ok(w, "0")
    ELSE IF w.t.status # "LOCKED" /\ probe = "crash"
    THEN Raise(Called([w EXCEPT !.t.vars = @ \cup AutoparalVars], "probe_crashed"),
               "Exception")
    ELSE LET \* history.pop(), process.wait(), input.remove_vars(...)
             Probed(r) ==
                 IF r.exc # "none" THEN r
                 ELSE AfterProbe([r.w EXCEPT
                                    !.calls = SubSeq(@, 1, Len(@) - 1) \o <<"probe">>,
                                    !.log = Popped(@),
                                    !.d.out = TRUE, !.d.log = "running",
                                    !.d.stderr = "empty",
                                    !.t.vars = @ \ AutoparalVars],
                                 inp, probe)
         IN Probed(Launch([w EXCEPT !.t.vars = @ \cup AutoparalVars], "ok"))

(***************************************************************************)
(* Task.start. The value returned by autoparal_run is not looked at. The   *)
(* process returned by manager.launch becomes the Task's process.          *)
(***************************************************************************)
StartLaunch(w, inp) ==
    LET Keep(r) == IF r.exc # "none" THEN r
                   ELSE Ok([r.w EXCEPT !.p = "running"], "1")
    IN Keep(Launch(w, inp.submit))

StartGiveUp(w, msg) ==
    Returning(SetStatusCore(w, "ABICRITICAL", msg), "0")

\* The recovery that launches the job whatever fix_abicritical and the
\* second autoparal_run do (C29 depends on the two returns).
StartRecover_LaunchesAnyway(w, inp) ==
    LET Second(a) == StartLaunch(a.w, inp)
        Fixed(f) ==
            IF f.exc # "none" THEN f
            ELSE Second(AutoparalRun(f.w, inp, inp.probe2))
    IN Fixed(FixAbicritical(Called(w, "fix_abicritical"), inp.handlers))

\* The first autoparal_run has raised: fix_abicritical, then a second
\* autoparal_run.
StartRecover(w, inp) ==
    LET Second(a) ==
            IF a.exc = "none" THEN StartLaunch(a.w, inp)
            ELSE StartGiveUp(a.w, "Tried autoparal again")
        Fixed(f) ==
            IF f.exc # "none" THEN f
            ELSE IF f.ret = "0"
            THEN StartGiveUp(f.w, "fix_abicritical could not solve the problem")
            ELSE Second(AutoparalRun(f.w, inp, inp.probe2))
    IN Fixed(FixAbicritical(Called(w, "fix_abicritical"), inp.handlers))

Start(w, inp) ==
    IF StatusRank(w.t.status) >= StatusRank("SUB") THEN Raise(w, "TaskError")
    ELSE IF w.d.lock THEN Ok(w, "0")
    ELSE LET First(a) ==
                 IF a.exc = "none" THEN StartLaunch(a.w, inp)
                 ELSE StartRecover(a.w, inp)
         IN First(AutoparalRun([w EXCEPT !.d.lock = TRUE], inp, inp.probe))

(***************************************************************************)
(* Task._restart(submit=True) and ScfTask.restart, the restart that the    *)
(* collinear stage of CollinearThenNonCollinearScfTask runs from _on_ok.   *)
(***************************************************************************)
RestartSubmit(w, inp) ==
    LET Fired(s) == IF s.exc # "none" THEN s
                    ELSE Ok(s.w, IF s.ret = "1" THEN "1" ELSE "0")
        Count(r) == IF r.exc # "none" THEN r
                    ELSE Fired(Start([r.w EXCEPT !.t.num_restarts = @ + 1,
                                                 !.t.dt = DateTimesReset(@),
                                                 !.d.lock = FALSE], inp))
    IN Count(SetStatusCore(w, "READY", "Restarted"))

\* out_to_in of the restart file, and the variable that makes ABINIT read it.
RestartFrom(w, ext) ==
    [w EXCEPT !.d.outdata = @ \ {ext},
              !.d.indata = @ \cup {ext},
              !.t.vars = @ \cup {IF ext = "WFK" THEN "irdwfk" ELSE "irdden"}]

ScfRestart(w, inp) ==
    IF w.d.outdata \cap {"WFK", "DEN"} = {}
    THEN Raise(w, "RestartError")
    ELSE RestartSubmit(RestartFrom(w, IF "WFK" \in w.d.outdata THEN "WFK" ELSE "DEN"),
                       inp)

(***************************************************************************)
(* restart() of the families that restart from the files of the previous   *)
(* run. The files are names in outdata and indata: "1WF" and "1WF_2" are   *)
(* two first-order wavefunction files, "1DEN" and "1DEN_2" two first-order *)
(* density files, "TIMDEN" the last TIM?_DEN file, "BSR" the blocks of the *)
(* excitonic Hamiltonian.                                                  *)
(***************************************************************************)
RestartFamilies ==
    {"ScfTask", "NscfTask", "RelaxTask", "DfptTask", "SigmaTask", "BseTask"}

\* out_to_in of the files exts (a file renamed first goes in under the name
\* into), and set_vars of the variables irdvars.
MovedIn(w, exts, into, irdvars) ==
    [w EXCEPT !.d.outdata = @ \ exts,
              !.d.indata = @ \cup into,
              !.t.vars = @ \cup irdvars]

\* NscfTask.restart (WFK) and SigmaTask.restart (QPS).
OneFileRestart(w, ext, irdvar, inp) ==
    IF ext \notin w.d.outdata THEN Raise(w, "RestartError")
    ELSE RestartSubmit(MovedIn(w, {ext}, {ext}, {irdvar}), inp)

\* RelaxTask.restart: the WFK file is not used; out_DEN, else the last
\* TIM?_DEN file renamed to out_DEN, else no file and a warning; then the
\* final structure is read from the GSR file, which raises RuntimeError
\* when there is none.
RelaxPrepared(w) ==
    IF "DEN" \in w.d.outdata THEN MovedIn(w, {"DEN"}, {"DEN"}, {"irdden"})
    ELSE IF "TIMDEN" \in w.d.outdata THEN MovedIn(w, {"TIMDEN"}, {"DEN"}, {"irdden"})
    ELSE w

RelaxRestart(w, inp) ==
    IF "GSR" \notin w.d.outdata THEN Raise(RelaxPrepared(w), "RuntimeError")
    ELSE RestartSubmit([RelaxPrepared(w) EXCEPT !.t.vars = @ \cup {"structure"}], inp)

\* DfptTask.restart: the 1WF file when there is exactly one, else the 1DEN
\* file when there is exactly one.
DfptRestart(w, inp) ==
    LET Only(files) == IF Cardinality(w.d.outdata \cap files) = 1
                       THEN w.d.outdata \cap files ELSE {}
    IN IF Only({"1WF", "1WF_2"}) # {}
       THEN RestartSubmit(MovedIn(w, Only({"1WF", "1WF_2"}), Only({"1WF", "1WF_2"}),
                                  {"ird1wf"}), inp)
       ELSE IF Only({"1DEN", "1DEN_2"}) # {}
       THEN RestartSubmit(MovedIn(w, Only({"1DEN", "1DEN_2"}), Only({"1DEN", "1DEN_2"}),
                                  {"ird1den"}), inp)
       ELSE Raise(w, "RestartError")

\* BseTask.restart: the BSR file goes from outdata to indata, or is in
\* indata since an earlier restart; then the HAYDR_SAVE file.
BseRestart(w, inp) ==
    LET Blocks == MovedIn(w, w.d.outdata \cap {"BSR"}, w.d.outdata \cap {"BSR"}, {})
    IN IF "BSR" \notin (w.d.outdata \cup w.d.indata) THEN Raise(w, "RestartError")
       ELSE IF "HAYDR_SAVE" \notin w.d.outdata THEN Raise(Blocks, "RestartError")
       ELSE RestartSubmit(MovedIn(Blocks, {"HAYDR_SAVE"}, {"HAYDR_SAVE"},
                                  IF "BSR" \in w.d.outdata
                                  THEN {"irdbsreso", "irdhaydock"} ELSE {"irdhaydock"}),
                          inp)

\* restart() of the family of the Task.
FamilyRestart(w, inp) ==
    CASE w.t.fam = "ScfTask" -> ScfRestart(w, inp)
      [] w.t.fam = "NscfTask" -> OneFileRestart(w, "WFK", "irdwfk", inp)
      [] w.t.fam = "RelaxTask" -> RelaxRestart(w, inp)
      [] w.t.fam = "DfptTask" -> DfptRestart(w, inp)
      [] w.t.fam = "SigmaTask" -> OneFileRestart(w, "QPS", "irdqps", inp)
      [] w.t.fam = "BseTask" -> BseRestart(w, inp)
      [] OTHER -> RestartSubmit(w, inp)

\* The files of a finished run from which the family can restart.
RestartFiles(fam) ==
    CASE fam = "ScfTask" -> {"WFK", "DEN"}
      [] fam = "NscfTask" -> {"WFK"}
      [] fam = "RelaxTask" -> {"WFK", "DEN", "TIMDEN", "GSR"}
      [] fam = "DfptTask" -> {"1WF", "1WF_2", "1DEN", "1DEN_2"}
      [] fam = "SigmaTask" -> {"QPS"}
      [] fam = "BseTask" -> {"BSR", "HAYDR_SAVE"}
      [] OTHER -> {}

(***************************************************************************)
(* Task._on_ok and its override in CollinearThenNonCollinearScfTask.       *)
(* n_on_ok counts the runs of the family's on_ok post-processing.          *)
(***************************************************************************)
\* _on_ok that forgets to raise the finalized flag (C2 depends on the flag).
TaskOnOk_NotFinalized(w) ==
    [w EXCEPT !.t.n_on_ok = @ + 1]

TaskOnOk(w) ==
    [w EXCEPT !.t.finalized = TRUE, !.t.n_on_ok = @ + 1]

OnOk(w, inp) ==
    IF w.t.fam = "CollinearScfTask" /\ ~w.t.collinear_done
    THEN ScfRestart([TaskOnOk(w) EXCEPT !.t.collinear_done = TRUE,
                                        !.t.finalized = FALSE], inp)
    ELSE Ok(TaskOnOk(w), "results")

(***************************************************************************)
(* Task.set_status, S_OK callback included.                                *)
(***************************************************************************)
SetStatus(w, status, msg, inp) ==
    LET Callback(r) ==
            IF r.exc # "none" \/ status # "OK" \/ r.w.t.finalized THEN r
            ELSE Returning(OnOk(r.w, inp), status)
    IN Callback(SetStatusCore(w, status, msg))

(***************************************************************************)
(* Task.check_status. The early return for S_LOCKED and S_ERROR is         *)
(* commented out in the source. Verdict is the status and the message that *)
(* the rules of check_status, tried in the order of the code, pass to      *)
(* set_status ("same" where the code returns self.status); g is the result *)
(* of get_event_report, read only when the return code is 0, there is no   *)
(* abort file and the output file exists. inp.stale tells whether, at the  *)
(* time of the call, the output file was last modified more than           *)
(* policy.frozen_timeout ago.                                              *)
(***************************************************************************)
Report(w) ==
    IF ReturnCode(w) = "0" /\ ~w.d.abort /\ w.d.out
    THEN GetEventReport(w)
    ELSE Ok(w, "unread")

VerdictTail(d, inp) ==
    IF ~d.out /\ d.stderr = "absent" /\ d.qerr = "absent"
    THEN [status |-> "same", msg |-> "none"]
    ELSE IF d.out /\ inp.stale
    THEN [status |-> "ERROR", msg |-> "Task seems to be frozen"]
    ELSE [status |-> "RUN", msg |-> "final option: nothing seems to be wrong"]

Verdict(g, inp) ==
    IF ReturnCode(g.w) # "0"
    THEN [status |-> "QCRITICAL", msg |-> "job.sh return code"]
    ELSE IF g.w.d.abort
    THEN [status |-> "ABICRITICAL", msg |-> "Found ABINIT abort file"]
    ELSE IF ~g.w.d.out THEN VerdictTail(g.w.d, inp)
    ELSE IF g.exc # "none"
    THEN [status |-> "ABICRITICAL", msg |-> "exception while parsing event_report"]
    ELSE IF g.ret = "None"
    THEN [status |-> "ERROR", msg |-> "Got None report!"]
    ELSE IF g.ret = "completed_crit"
    THEN [status |-> "UNCONVERGED", msg |-> "status set to UNCONVERGED based on abiout"]
    ELSE IF g.ret = "completed"
    THEN [status |-> "OK", msg |-> "status set to OK based on abiout"]
    ELSE IF g.ret = "errors"
    THEN [status |-> "ABICRITICAL", msg |-> "errors in report"]
    ELSE IF g.w.d.stderr = "empty" /\ g.w.d.qerr = "empty"
    THEN [status |-> "RUN", msg |-> "there is output and no errors"]
    ELSE VerdictTail(g.w.d, inp)

\* datetimes.start and datetimes.end are taken from a report of a completed
\* run before set_status is called.
Timed(g) ==
    IF g.exc = "none" /\ g.ret \in {"completed", "completed_crit"}
    THEN [g.w EXCEPT !.t.dt.start = TRUE, !.t.dt.end = TRUE]
    ELSE g.w

CheckStatusWith(g, inp) ==
    IF Verdict(g, inp).status = "same"
    THEN Ok(g.w, g.w.t.status)
    ELSE SetStatus(Timed(g), Verdict(g, inp).status, Verdict(g, inp).msg, inp)

CheckStatus(w, inp) == CheckStatusWith(Report(w), inp)

(***************************************************************************)
(* Task.lock and Task.unlock.                                              *)
(***************************************************************************)
Lock(w) ==
    IF w.t.status # "INIT" THEN Raise(w, "ValueError")
    ELSE Ok([w EXCEPT !.t.status = "LOCKED"], "None")

Unlock(w, check, inp) ==
    IF w.t.status # "LOCKED" THEN Raise(w, "RuntimeError")
    ELSE IF check
    THEN Returning(CheckStatus([w EXCEPT !.t.status = "READY"], inp), "None")
    ELSE Ok([w EXCEPT !.t.status = "READY"], "None")

(***************************************************************************)
(* Task.poll, Task.wait, Task.kill. A Task that was never launched has a   *)
(* FakeProcess: poll() gives None, wait() and kill() raise. code is the    *)
(* exit code with which a running process ends while wait() blocks.        *)
(***************************************************************************)
ProcessPoll(p) ==
    CASE p = "exit0" -> "0"
      [] p = "exitN" -> "nz"
      [] OTHER -> "None"

Poll(w) ==
    IF ProcessPoll(w.p) # "None"
    THEN Returning(SetStatusCore([w EXCEPT !.t.rc = ProcessPoll(w.p)],
                                 "DONE", "status set to DONE"),
                   ProcessPoll(w.p))
    ELSE Ok([w EXCEPT !.t.rc = "None"], "None")

\* The process once wait() has returned.
Waited(p, code) == IF p = "running" THEN code ELSE p

Wait(w, code) ==
    IF w.p = "fake" THEN Raise(w, "RuntimeError")
    ELSE Returning(SetStatusCore([w EXCEPT !.p = Waited(@, code),
                                           !.t.rc = ProcessPoll(Waited(w.p, code))],
                                 "DONE", "status set to DONE"),
                   ProcessPoll(Waited(w.p, code)))

Kill(w) ==
    IF w.p = "fake" THEN Raise(w, "RuntimeError")
    ELSE LET Code(r) == IF r.exc # "none" THEN r
                        ELSE Ok([r.w EXCEPT !.t.rc = ProcessPoll(w.p)], "None")
         IN Code(SetStatusCore([w EXCEPT !.p = IF @ = "running" THEN "exitN" ELSE @],
                               "ERROR", "status set to ERROR by task.kill"))

(***************************************************************************)
(* Task.reset and Task.cancel. cancelled is the adapter's answer to        *)
(* cancel(job id): TRUE when its exit status is 0.                         *)
(***************************************************************************)
\* reset that leaves the start-lock marker where it is (C22 depends on its
\* removal).
Reset_KeepsLock(w) ==
    LET Forget(r) == IF r.exc # "none" THEN r
                     ELSE Ok([r.w EXCEPT !.t.num_restarts = 0, !.t.qjob = FALSE], "0")
    IN Forget(SetStatusCore([w EXCEPT !.d.out = FALSE, !.d.log = "absent",
                                      !.d.stderr = "absent",
                                      !.d.qerr = "absent", !.d.qout = FALSE,
                                      !.d.abort = FALSE],
                            "INIT", "Reset"))

Reset(w) ==
    LET Forget(r) == IF r.exc # "none" THEN r
                     ELSE Ok([r.w EXCEPT !.t.num_restarts = 0, !.t.qjob = FALSE], "0")
    IN Forget(SetStatusCore([w EXCEPT !.d.out = FALSE, !.d.log = "absent",
                                      !.d.stderr = "absent", !.d.lock = FALSE,
                                      !.d.qerr = "absent", !.d.qout = FALSE,
                                      !.d.abort = FALSE],
                            "INIT", "Reset"))

Cancel(w, cancelled) ==
    IF ~w.t.qjob THEN Ok(w, "0")
    ELSE IF StatusRank(w.t.status) >= StatusRank("DONE") THEN Ok(w, "0")
    ELSE IF ~cancelled THEN Ok(Called(w, "cancel"), "0")
    ELSE Returning(Reset(Called(w, "cancel")), "1")

(***************************************************************************)
(* The escalation primitives of TaskManager. qa tells, per adapter request *)
(* (more_cores, more_mem_per_proc, more_time, exclude_nodes), whether the  *)
(* adapter grants it; a refusal (QueueAdapterError) is turned into         *)
(* ManagerIncreaseError.                                                   *)
(***************************************************************************)
IncreaseMem(w, qa) ==
    IF qa.mem THEN Ok(Called(w, "increase_mem"), "None")
    ELSE Raise(Called(w, "increase_mem_failed"), "ManagerIncreaseError")

IncreaseNcpus(w, qa) ==
    IF qa.cores THEN Ok(Called(w, "increase_ncpus"), "None")
    ELSE Raise(Called(w, "increase_ncpus_failed"), "ManagerIncreaseError")

IncreaseResources(w, qa) ==
    IF qa.cores \/ qa.mem THEN Ok(Called(w, "increase_resources"), "None")
    ELSE Raise(Called(w, "increase_resources_failed"), "ManagerIncreaseError")

ExcludeNodes(w, qa) ==
    IF qa.excl THEN Ok(Called(w, "exclude_nodes"), "None")
    ELSE Raise(Called(w, "exclude_nodes_failed"), "ManagerIncreaseError")

IncreaseTime(w, qa) ==
    IF qa.time THEN Ok(Called(w, "increase_time"), "None")
    ELSE Raise(Called(w, "increase_time_failed"), "ManagerIncreaseError")

(***************************************************************************)
(* The family hooks reduce_memory_demand and speed_up. The base class      *)
(* returns False; ManyBodyTask lowers gwmem digit by digit; a CustomTask   *)
(* is a subclass that raises DecreaseDemandsError, as the docstring of     *)
(* that exception allows.                                                  *)
(***************************************************************************)
ReduceMemoryDemand(w) ==
    CASE w.t.fam = "CustomTask" ->
           Raise(Called(w, "reduce_memory_demand"), "DecreaseDemandsError")
      [] w.t.fam = "ManyBodyTask" ->
           IF w.t.gwmem % 10 = 1
           THEN Ok([Called(w, "reduce_memory_demand")
                      EXCEPT !.t.gwmem = 10 * (w.t.gwmem \div 10)], "True")
           ELSE IF w.t.gwmem \div 10 = 1
           THEN Ok([Called(w, "reduce_memory_demand") EXCEPT !.t.gwmem = 0], "True")
           ELSE Ok(Called(w, "reduce_memory_demand"), "False")
      [] OTHER -> Ok(Called(w, "reduce_memory_demand"), "False")

SpeedUp(w) ==
    IF w.t.fam = "CustomTask"
    THEN Raise(Called(w, "speed_up"), "DecreaseDemandsError")
    ELSE Ok(Called(w, "speed_up"), "False")

(***************************************************************************)
(* AbinitTask.fix_queue_critical. errs is queue_errors, a sequence of      *)
(* error kinds; ms and ls are mem_scales and load_scales.                  *)
(***************************************************************************)
ErrorKinds ==
    {"NodeFailure", "NodeFailureUnknown", "MemoryCancel", "TimeCancel", "Other"}

\* The rest of a try block once its first call r has been made:
\* reset_from_scratch, set_status(S_READY, msg), return.
Remediate(r, msg) ==
    LET Ready(f) == IF f.exc # "none" THEN f
                    ELSE Returning(SetStatusCore(f.w, "READY", msg), "None")
    IN IF r.exc # "none" THEN r ELSE Ready(ResetFromScratch(r.w))

GiveUp(w, msg) ==
    Raising(SetStatusCore(w, "ERROR", msg), "FixQueueCriticalError")

\* The branch without the test of mem_scales and load_scales (C7 depends on
\* the test).
FixNoErrors_AlwaysTries(w, ms, ls, qa) ==
    LET Except(f) ==
            IF f.exc = "ManagerIncreaseError"
            THEN GiveUp(f.w, "unknown queue error, could not increase resources any further")
            ELSE f
        Increased(i) ==
            IF i.exc # "none" THEN i
            ELSE Returning(ResetFromScratch(i.w), "increased resources")
    IN Except(Increased(IncreaseResources(w, qa)))

FixNoErrors(w, ms, ls, qa) ==
    IF ms \/ ls
    THEN LET Except(f) ==
                 IF f.exc = "ManagerIncreaseError"
                 THEN GiveUp(f.w, "unknown queue error, could not increase resources any further")
                 ELSE f
             Increased(i) ==
                 IF i.exc # "none" THEN i
                 ELSE Returning(ResetFromScratch(i.w), "increased resources")
         IN Except(Increased(IncreaseResources(w, qa)))
    ELSE GiveUp(w, "unknown queue error, no options left")

FixMemory3(w) ==
    LET Except(a) == IF a.exc = "DecreaseDemandsError"
                     THEN GiveUp(a.w, "Memory error detected")
                     ELSE a
    IN Except(Remediate(ReduceMemoryDemand(w), "decreased mem demand"))

FixMemory2(w, qa) ==
    LET Except(a) == IF a.exc = "ManagerIncreaseError" THEN FixMemory3(a.w) ELSE a
    IN Except(Remediate(IncreaseMem(w, qa), "increased mem"))

\* The two ways into the second try block give the same world when
\* mem_scales is False: no call has been made.
FixMemory(w, ms, qa) ==
    IF ms
    THEN LET Except(a) ==
                 IF a.exc = "ManagerIncreaseError" THEN FixMemory2(a.w, qa) ELSE a
         IN Except(Remediate(IncreaseNcpus(w, qa),
                             "increased ncps to solve memory problem"))
    ELSE FixMemory2(w, qa)

\* The time-limit branch; ret "continue" stands for falling out of the
\* branch into the next iteration of the loop over queue_errors.
FixTime3(w) ==
    LET Except(a) ==
            IF a.exc = "DecreaseDemandsError"
            THEN Returning(SetStatusCore(a.w, "ERROR", "Time cancel error detected"),
                           "continue")
            ELSE a
    IN Except(Remediate(SpeedUp(w), "task speedup"))

FixTime2(w, ls, qa) ==
    IF ls
    THEN LET Except(a) == IF a.exc = "ManagerIncreaseError" THEN FixTime3(a.w) ELSE a
         IN Except(Remediate(IncreaseNcpus(w, qa), "increased number of cpus"))
    ELSE FixTime3(w)

\* The time-limit branch without its first except clause (C10 depends on
\* the clause).
FixTime_NoCatch(w, ls, qa) ==
    Remediate(IncreaseTime(w, qa), "increased wall time")

FixTime(w, ls, qa) ==
    LET Except(a) ==
            IF a.exc = "ManagerIncreaseError" THEN FixTime2(a.w, ls, qa) ELSE a
    IN Except(Remediate(IncreaseTime(w, qa), "increased wall time"))

FixNode(w, qa) ==
    LET Except(a) == IF a.exc # "none" THEN Raise(a.w, "FixQueueCriticalError")
                     ELSE Ok(a.w, "continue")
    IN Except(Remediate(ExcludeNodes(w, qa), "excluding nodes"))

FixOther(w) ==
    Returning(SetStatusCore(w, "ERROR", "No solution provided for error"), "continue")

FixOneError(w, error, ms, ls, qa) ==
    CASE error = "NodeFailure" -> FixNode(w, qa)
      [] error = "NodeFailureUnknown" -> GiveUp(w, "Node error but no node identified.")
      [] error = "MemoryCancel" -> FixMemory(w, ms, qa)
      [] error = "TimeCancel" -> FixTime(w, ls, qa)
      [] OTHER -> FixOther(w)

RECURSIVE FixErrors(_, _, _, _, _)
FixErrors(w, errs, ms, ls, qa) ==
    IF errs = <<>> THEN Ok(w, "0")
    ELSE LET Loop(r) == IF r.exc = "none" /\ r.ret = "continue"
                        THEN FixErrors(r.w, Tail(errs), ms, ls, qa)
                        ELSE r
         IN Loop(FixOneError(w, Head(errs), ms, ls, qa))

FixQueueCritical(w, errs, ms, ls, qa) ==
    IF errs = <<>> THEN FixNoErrors(w, ms, ls, qa)
    ELSE FixErrors(w, errs, ms, ls, qa)

(***************************************************************************)
(* ParalConf and ParalHints. A configuration is a record [mpi, omp, eff,   *)
(* mem, kgb]: mpi_ncpus, omp_ncpus, efficiency (in halves: 2 is the ideal  *)
(* 1.0), mem_per_cpu, and the variable paral_kgb of its vars. The hints    *)
(* are the sequence _confs.                                                *)
(***************************************************************************)
NumCores(c) == c.mpi * c.omp

Speedup(c) == c.eff * NumCores(c)

\* Condition.__call__ for the conditions of the model: the empty condition
\* is True for every object.
Condition(cond, c) ==
    CASE cond = "none" -> TRUE
      [] cond = "efficiency_gte_1" -> c.eff >= 2
      [] cond = "paral_kgb_eq_1" -> c.kgb = 1
      [] OTHER -> FALSE

\* ParalHints.select_with_condition: the configurations that satisfy the
\* condition, in their order.
SelectWithCondition(confs, cond) ==
    LET Test(c) == Condition(cond, c)
    IN SelectSeq(confs, Test)

\* The filter step without the way back to the configurations it started
\* from (C11 depends on the way back).
Filtered_NoRevert(confs, cond) ==
    IF cond = "none" THEN confs
    ELSE SelectWithCondition(confs, cond)

\* One filter step of get_ordered_with_policy: the condition, when there is
\* one, is applied, and the change is undone when nothing is left.
Filtered(confs, cond) ==
    IF cond = "none" THEN confs
    ELSE IF SelectWithCondition(confs, cond) = <<>> THEN confs
    ELSE SelectWithCondition(confs, cond)

\* The key of list.sort for a ranking priority.
SortKey(c, priority) ==
    CASE priority = "speedup" -> Speedup(c)
      [] priority = "efficiency" -> c.eff
      [] OTHER -> c.mem

\* x goes before y in the order of list.sort(key, reverse).
GoesBefore(x, y, priority, reverse) ==
    IF reverse THEN SortKey(x, priority) > SortKey(y, priority)
    ELSE SortKey(x, priority) < SortKey(y, priority)

\* list.sort, which is stable also with reverse=True: the next item is put
\* behind every item it does not go before.
RECURSIVE ListSort(_, _, _)
ListSort(confs, priority, reverse) ==
    IF confs = <<>> THEN <<>>
    ELSE LET Put(done, x) ==
                 SelectSeq(done, LAMBDA y : ~GoesBefore(x, y, priority, reverse))
                 \o <<x>>
                 \o SelectSeq(done, LAMBDA y : GoesBefore(x, y, priority, reverse))
         IN Put(ListSort(SubSeq(confs, 1, Len(confs) - 1), priority, reverse),
                confs[Len(confs)])

\* The sort that puts the next item in front of the items with the same key
\* (C15 depends on the order of the ties).
SortBy_TiesReversed(confs, priority) ==
    IF priority = "mem_per_proc"
    THEN IF \E k \in DOMAIN confs : confs[k].mem > 0
         THEN ListSort(confs, priority, FALSE)
         ELSE confs
    ELSE LET Rev(q) == [k \in DOMAIN q |-> q[Len(q) + 1 - k]]
         IN Rev(ListSort(confs, priority, FALSE))

\* sort_by_speedup, sort_by_efficiency (reverse=True) and sort_by_mem_per_proc
\* (reverse=False, skipped when no configuration reports its memory).
SortBy(confs, priority) ==
    IF priority = "mem_per_proc"
    THEN IF \E k \in DOMAIN confs : confs[k].mem > 0
         THEN ListSort(confs, priority, FALSE)
         ELSE confs
    ELSE ListSort(confs, priority, TRUE)

\* The candidates of get_ordered_with_policy: the configurations within
\* max_ncpus, after the two filter steps.
Candidates(confs, policy, max_ncpus) ==
    LET Within(c) == NumCores(c) <= max_ncpus
    IN Filtered(Filtered(SelectSeq(confs, Within), policy.condition),
                policy.vars_condition)

\* ParalHints.get_ordered_with_policy with one ranking priority.
GetOrderedWithPolicy(confs, policy, max_ncpus) ==
    SortBy(Candidates(confs, policy, max_ncpus), policy.priority)

(***************************************************************************)
(* TaskManager. A queue adapter is a record [priority, enabled, min_cores, *)
(* max_cores, alloc, cores_per_node, has_omp, mpi_procs, omp_threads];     *)
(* enabled is the entry of that name in the descriptor ("unset" when the   *)
(* descriptor has none). A manager is [qads, qadpos].                      *)
(***************************************************************************)
\* QueueAdapter.can_run_pconf: the limits on the cores are satisfied.
CanRunPconf(qad, c) ==
    qad.min_cores <= NumCores(c) /\ NumCores(c) <= qad.max_cores

\* sorted(qads, key=priority), stable.
RECURSIVE SortedByPriority(_)
SortedByPriority(qads) ==
    IF qads = <<>> THEN <<>>
    ELSE LET Put(done, x) ==
                 SelectSeq(done, LAMBDA y : y.priority <= x.priority)
                 \o <<x>>
                 \o SelectSeq(done, LAMBDA y : y.priority > x.priority)
         IN Put(SortedByPriority(SubSeq(qads, 1, Len(qads) - 1)),
                qads[Len(qads)])

\* The loop over the descriptors: an entry is neglected when its "enabled"
\* is true ("true" here, "unset" when the descriptor has no such entry) or
\* its priority is 0.
KeptAdapters(descs) ==
    SelectSeq(descs, LAMBDA d : d.enabled # "true" /\ d.priority > 0)

\* TaskManager.__init__: the result is the exception, or the adapters and
\* the position of the active one.
TaskManagerInit(descs) ==
    IF \E k \in DOMAIN descs : descs[k].enabled # "true" /\ descs[k].priority < 0
    THEN [exc |-> "ValueError", qads |-> <<>>, qadpos |-> 0]
    ELSE IF KeptAdapters(descs) = <<>>
    THEN [exc |-> "ValueError", qads |-> <<>>, qadpos |-> 0]
    ELSE IF Cardinality({KeptAdapters(descs)[k].priority :
                            k \in DOMAIN KeptAdapters(descs)})
               # Len(KeptAdapters(descs))
    THEN [exc |-> "ValueError", qads |-> <<>>, qadpos |-> 0]
    ELSE [exc |-> "none", qads |-> SortedByPriority(KeptAdapters(descs)),
          qadpos |-> 0]

\* TaskManager.max_cores: the largest hint_cores of the adapters.
MaxCores(qads) ==
    CHOOSE n \in {qads[k].max_cores : k \in DOMAIN qads} :
       \A k \in DOMAIN qads : qads[k].max_cores <= n

\* _use_qadpos_pconf that leaves the active adapter as it is (C18 depends
\* on the change).
UseQadposPconf_SamePos(m, qadpos, c) ==
    [exc |-> "none", ret |-> c,
     m |-> [m EXCEPT !.qads[qadpos + 1].mpi_procs = c.mpi,
                     !.qads[qadpos + 1].omp_threads =
                         IF m.qads[qadpos + 1].has_omp THEN c.omp ELSE @]]

\* TaskManager._use_qadpos_pconf: the adapter becomes the active one and
\* takes the MPI processes of the configuration, and its OpenMP threads
\* when the adapter uses OpenMP. Positions count from 0 as in the source.
UseQadposPconf(m, qadpos, c) ==
    [exc |-> "none", ret |-> c,
     m |-> [m EXCEPT !.qadpos = qadpos,
                     !.qads[qadpos + 1].mpi_procs = c.mpi,
                     !.qads[qadpos + 1].omp_threads =
                         IF m.qads[qadpos + 1].has_omp THEN c.omp ELSE @]]

\* raise RuntimeError("Cannot find qadapter for this run!")
NoAdapter(m) ==
    [exc |-> "RuntimeError", m |-> m,
     ret |-> [mpi |-> 0, omp |-> 0, eff |-> 0, mem |-> 0, kgb |-> 0]]

\* The configuration that the adapter qad gets under precedence "qadapter":
\* the first one it can run whose cores fill whole nodes when it allocates
\* nodes and there is one, else the first one it can run. 0 when it can run
\* none. The result is a position in pconfs.
PickFor(qad, pconfs) ==
    LET Possible == {k \in DOMAIN pconfs : CanRunPconf(qad, pconfs[k])}
        Whole == {k \in Possible : NumCores(pconfs[k]) % qad.cores_per_node = 0}
        First(S) == CHOOSE k \in S : \A j \in S : k <= j
    IN IF Possible = {} THEN 0
       ELSE IF qad.alloc = "nodes" /\ Whole # {} THEN First(Whole)
       ELSE First(Possible)

\* The adapter that the configuration c gets under precedence
\* "autoparal_conf": the first one that can run it, an adapter that
\* allocates nodes being passed over when the cores of c do not fill whole
\* nodes. 0 when there is none. The result is a position in qads, from 1.
AdapterFor(qads, c) ==
    LET Fits == {k \in DOMAIN qads :
                    /\ ~(qads[k].alloc = "nodes"
                         /\ NumCores(c) % qads[k].cores_per_node # 0)
                    /\ CanRunPconf(qads[k], c)}
    IN IF Fits = {} THEN 0 ELSE CHOOSE k \in Fits : \A j \in Fits : k <= j

\* The loop over the adapters that takes the first adapter at all, whether
\* it can run a configuration or not, and gives up when it cannot (C16
\* depends on going on to the next adapter).
SelectByQadapter_FirstOnly(m, pconfs) ==
    IF PickFor(m.qads[1], pconfs) = 0 THEN NoAdapter(m)
    ELSE UseQadposPconf(m, 0, pconfs[PickFor(m.qads[1], pconfs)])

\* The loop over the adapters of select_qadapter (precedence "qadapter").
SelectByQadapter(m, pconfs) ==
    LET Hosts == {k \in DOMAIN m.qads : PickFor(m.qads[k], pconfs) # 0}
        First(S) == CHOOSE k \in S : \A j \in S : k <= j
    IN IF Hosts = {} THEN NoAdapter(m)
       ELSE UseQadposPconf(m, First(Hosts) - 1,
                           pconfs[PickFor(m.qads[First(Hosts)], pconfs)])

\* The loop over the configurations that looks at the best configuration
\* only (C17 depends on going on to the next configuration).
SelectByConf_BestOnly(m, pconfs) ==
    IF pconfs = <<>> \/ AdapterFor(m.qads, pconfs[1]) = 0 THEN NoAdapter(m)
    ELSE UseQadposPconf(m, AdapterFor(m.qads, pconfs[1]) - 1, pconfs[1])

\* The loop over the configurations of select_qadapter (precedence
\* "autoparal_conf").
SelectByConf(m, pconfs) ==
    LET Hosted == {k \in DOMAIN pconfs : AdapterFor(m.qads, pconfs[k]) # 0}
        First(S) == CHOOSE k \in S : \A j \in S : k <= j
    IN IF Hosted = {} THEN NoAdapter(m)
       ELSE UseQadposPconf(m, AdapterFor(m.qads, pconfs[First(Hosted)]) - 1,
                           pconfs[First(Hosted)])

\* TaskManager.select_qadapter: the configurations are ordered by the
\* policy, then a configuration and an adapter are chosen by the precedence
\* of the policy.
SelectQadapter(m, policy, confs) ==
    IF policy.precedence = "qadapter"
    THEN SelectByQadapter(m, GetOrderedWithPolicy(confs, policy, MaxCores(m.qads)))
    ELSE SelectByConf(m, GetOrderedWithPolicy(confs, policy, MaxCores(m.qads)))

(***************************************************************************)
(* Inputs of the operations: the answers of the collaborators that are     *)
(* outside tasks.py (policy, queue adapter, probe run, event handlers).    *)
(***************************************************************************)
Negotiates(i) == i.autoparal = 1 /\ i.max_cores = 2

FirstProbeRaises(i) ==
    \/ i.autoparal = 2
    \/ Negotiates(i) /\ i.probe = "crash"
    \/ Negotiates(i) /\ i.probe \in {"hints", "late"} /\ i.select = "notfound"

StartInputs ==
    {i \in [autoparal : {0, 1, 2}, max_cores : {1, 2},
            submit : {"ok", "maxlaunches"},
            probe : {"hints", "late", "nohints", "crash"},
            probe2 : {"hints", "crash"},
            select : {"found", "notfound"},
            handlers : {"none", "nofix", "fix"}, stale : {FALSE}] :
        /\ i.autoparal = 2 => i.max_cores = 2
        /\ ~Negotiates(i) => i.probe = "hints" /\ i.select = "found"
        /\ ~FirstProbeRaises(i) => i.handlers = "none"
        /\ i.handlers # "fix" => i.probe2 = "hints"}

DefaultInp ==
    [autoparal |-> 0, max_cores |-> 1, submit |-> "ok", probe |-> "hints",
     probe2 |-> "hints", select |-> "found", handlers |-> "none",
     stale |-> FALSE]

\* The inputs under which start() does not negotiate: autoparal is off, or
\* the manager reaches one core only.
PlainInputs == {i \in StartInputs : i.autoparal # 2 /\ ~Negotiates(i)}

\* Only the collinear stage of a CollinearThenNonCollinearScfTask can reach
\* start() from set_status; elsewhere the inputs of start() are not read.
NestedInputs ==
    IF task.fam = "CollinearScfTask" /\ ~task.collinear_done
    THEN PlainInputs ELSE {DefaultInp}

CheckInputs ==
    {[i EXCEPT !.stale = st] : i \in NestedInputs, st \in BOOLEAN}

QueueErrorLists ==
    UNION {[1..n -> ErrorKinds] : n \in 0..MaxErrors}

AdapterAnswers == [cores : BOOLEAN, mem : BOOLEAN, time : BOOLEAN, excl : BOOLEAN]

\* An adapter answer is an input only where the error kinds at hand can
\* lead to the request; so are mem_scales and load_scales.
Asks(errs, kinds) == errs = <<>> \/ \E i \in DOMAIN errs : errs[i] \in kinds

FixInputs ==
    {f \in [errs : QueueErrorLists, ms : BOOLEAN, ls : BOOLEAN, qa : AdapterAnswers] :
        /\ ~Asks(f.errs, {"MemoryCancel"}) => f.ms
        /\ ~Asks(f.errs, {"TimeCancel"}) => f.ls
        /\ ~Asks(f.errs, {"MemoryCancel", "TimeCancel"}) => f.qa.cores
        /\ ~Asks(f.errs, {"MemoryCancel"}) => f.qa.mem
        /\ ~(f.errs # <<>> /\ Asks(f.errs, {"TimeCancel"})) => f.qa.time
        /\ ~(f.errs # <<>> /\ Asks(f.errs, {"NodeFailure"})) => f.qa.excl}

\* What the last operation's record keeps of the inputs of start().
Policy(i) == [autoparal |-> i.autoparal, max_cores |-> i.max_cores]

\* What a launched job can leave in the working directory.
Evidence ==
    LET E(out, log, stderr, qerr, abort, data) ==
          [out |-> out, log |-> log, stderr |-> stderr, qerr |-> qerr,
           qout |-> TRUE, abort |-> abort, data |-> data]
    IN {E(TRUE, "running", "empty", "empty", FALSE, {}),
        E(TRUE, "running", "nonempty", "absent", FALSE, {}),
        E(TRUE, "completed", "empty", "empty", FALSE, {}),
        E(TRUE, "completed", "empty", "empty", FALSE, {"WFK", "DEN"}),
        E(TRUE, "completed", "empty", "empty", FALSE, {"DEN"}),
        E(TRUE, "completed_crit", "empty", "empty", FALSE, {"WFK"}),
        E(TRUE, "errors", "empty", "empty", FALSE, {}),
        E(TRUE, "completed", "nonempty", "empty", TRUE, {}),
        E(TRUE, "garbled", "empty", "empty", FALSE, {}),
        E(TRUE, "absent", "empty", "empty", FALSE, {}),
        E(FALSE, "absent", "absent", "nonempty", FALSE, {})}

\* What a job leaves when the queue cancels it.
CancelEvidence ==
    {e \in Evidence : e.log \in {"running", "absent"} /\ ~e.abort
                       /\ "nonempty" \in {e.stderr, e.qerr}}

\* Restart files matter to the families that restart from them.
RestartsFromFiles(fam) == fam = "CollinearScfTask"

\* Only the families that declare CRITICAL_EVENTS can find such an event.
HasCriticalEvents(fam) == fam \in {"CollinearScfTask"} \cup RestartFamilies

(***************************************************************************)
(* Inputs of the negotiation: the descriptors of the queue adapters, the   *)
(* policies, and the configurations that the probe reports.                *)
(***************************************************************************)
\* The kinds of queue adapter: one core only; whole nodes of two cores, up
\* to four cores; two to four cores with OpenMP.
QadapterKinds ==
    {[min_cores |-> 1, max_cores |-> 1, alloc |-> "shared", cores_per_node |-> 2,
      has_omp |-> FALSE],
     [min_cores |-> 1, max_cores |-> 4, alloc |-> "nodes", cores_per_node |-> 2,
      has_omp |-> FALSE],
     [min_cores |-> 2, max_cores |-> 4, alloc |-> "shared", cores_per_node |-> 2,
      has_omp |-> TRUE]}

\* make_qadapter: the adapter of a descriptor starts with one MPI process
\* and one OpenMP thread.
QadapterDescriptors ==
    {[priority |-> p, enabled |-> e, min_cores |-> k.min_cores,
      max_cores |-> k.max_cores, alloc |-> k.alloc,
      cores_per_node |-> k.cores_per_node, has_omp |-> k.has_omp,
      mpi_procs |-> 1, omp_threads |-> 1] :
        p \in {-1, 0, 1, 2}, e \in {"unset", "true"}, k \in QadapterKinds}

DescriptorLists ==
    UNION {[1..n -> QadapterDescriptors] : n \in 0..MaxAdapters}

\* TaskPolicy with one ranking priority.
Policies ==
    [condition : {"none", "efficiency_gte_1"},
     vars_condition : {"none", "paral_kgb_eq_1"},
     priority : {"speedup", "efficiency", "mem_per_proc"},
     precedence : {"qadapter", "autoparal_conf"}]

\* TaskPolicy.__init__ without arguments.
DefaultPolicy ==
    [condition |-> "none", vars_condition |-> "none", priority |-> "speedup",
     precedence |-> "autoparal_conf"]

\* The configurations of the hints: the first two have the same speedup,
\* the first and the third the same efficiency and memory, the last one
\* satisfies no condition and reports no memory.
ParalConfs ==
    {[mpi |-> 1, omp |-> 1, eff |-> 2, mem |-> 2, kgb |-> 0],
     [mpi |-> 2, omp |-> 1, eff |-> 1, mem |-> 1, kgb |-> 1],
     [mpi |-> 2, omp |-> 2, eff |-> 2, mem |-> 2, kgb |-> 0],
     [mpi |-> 3, omp |-> 1, eff |-> 1, mem |-> 0, kgb |-> 0]}

HintLists ==
    UNION {[1..n -> ParalConfs] : n \in 0..MaxConfs}

\* The manager of a Task whose negotiation is an input of start().
NoManager ==
    [descs |-> <<>>, built |-> "no", qads |-> <<>>, qadpos |-> 0,
     policy |-> DefaultPolicy]

NoConf == [mpi |-> 0, omp |-> 0, eff |-> 0, mem |-> 0, kgb |-> 0]

\* The hints of a negotiation: whether the probe has reported them ("no",
\* "yes", and "used" after select_qadapter), the configurations, and what
\* select_qadapter raised and returned.
NoHints == [parsed |-> "no", confs |-> <<>>, exc |-> "none", ret |-> NoConf]

(***************************************************************************)
(* The Task in its flow. The Task depends on the producers: a dependency   *)
(* names a producer and the extensions of the files needed from it. A file *)
(* is its extension, the number the backend appended to the extension (0   *)
(* when there is none: out_1WF17 has 17, out_WFK has 0) and whether its    *)
(* name ends with ".nc"; flow.files gives the files in the output          *)
(* directory of a node, "t" being the Task itself. An input                *)
(* link of the Task is named as the file it stands for (in_WFK for         *)
(* out_WFK); flow.links gives the producer whose file the link points to,  *)
(* "none" when the link does not exist. The consumers depend on the Task   *)
(* ("c") and on the producer "p" ("s"); flow.consumers gives the           *)
(* extensions they need and whether they are OK, flow.gc the extensions of *)
(* the garbage collector, none when there is no collector.                 *)
(***************************************************************************)
Producers == {"p", "q"}

LinkExts == {"WFK", "DEN"}

Nodes == Producers \cup {"t"}

OutFiles == [ext : LinkExts, pert : {0}, nc : BOOLEAN]

Dependencies == [node : Producers, exts : {<<"WFK">>, <<"DEN">>, <<"WFK", "DEN">>}]

Consumers == {"c", "s"}

ProducerOf == [k \in Consumers |-> IF k = "c" THEN "t" ELSE "p"]

NoFlow ==
    [deps |-> <<>>, files |-> [n \in Nodes |-> {}],
     links |-> [f \in OutFiles |-> "none"],
     consumers |-> [k \in Consumers |-> [exts |-> <<>>, ok |-> FALSE]],
     gc |-> {}]

\* Dependency.get_filepaths_and_exts: the paths of the producer's files and
\* their extensions, in the order of the dependencies.
RECURSIVE FilepathsAndExts(_)
FilepathsAndExts(deps) ==
    IF deps = <<>> THEN <<>>
    ELSE [k \in 1..Len(Head(deps).exts) |->
             [node |-> Head(deps).node, ext |-> Head(deps).exts[k]]]
         \o FilepathsAndExts(Tail(deps))

\* my_symlink of DfptTask.make_links: an existing destination is left as it
\* is, whatever it points to.
MySymlink(links, dst, node) ==
    IF links[dst] # "none" THEN links ELSE [links EXCEPT ![dst] = node]

\* Directory.has_abiext on the files of a node: the file whose name ends
\* with the extension or with the extension and ".nc", else the file whose
\* name holds the extension; no file when there is none and ValueError when
\* there are several.
HasAbiext(files, ext) ==
    LET ends == {f \in files : f.ext = ext /\ f.pert = 0}
        found == IF ends # {} THEN ends ELSE {f \in files : f.ext = ext}
    IN IF found = {} THEN [exc |-> "none", found |-> FALSE, nc |-> FALSE]
       ELSE IF Cardinality(found) > 1
            THEN [exc |-> "ValueError", found |-> FALSE, nc |-> FALSE]
            ELSE [exc |-> "none", found |-> TRUE,
                  nc |-> (CHOOSE f \in found : TRUE).nc]

\* One path of Task.make_links, on the links made so far: the file of the
\* producer or its netcdf form, linked when the destination is missing, and
\* an error when the destination points elsewhere on a Task never restarted.
Linked(r, fl, need, num_restarts) ==
    LET plain == [ext |-> need.ext, pert |-> 0, nc |-> FALSE]
        netcdf == [ext |-> need.ext, pert |-> 0, nc |-> TRUE]
        dest == IF plain \in fl.files[need.node] THEN plain ELSE netcdf
    IN IF r.exc # "none" THEN r
       ELSE IF fl.files[need.node] \cap {plain, netcdf} = {}
            THEN [r EXCEPT !.exc = "TaskError"]
            ELSE IF r.links[dest] = "none"
                 THEN [r EXCEPT !.links[dest] = need.node]
                 ELSE IF r.links[dest] # need.node /\ num_restarts = 0
                      THEN [r EXCEPT !.exc = "TaskError"]
                      ELSE r

\* One extension of DfptTask.make_links (the WFK and DEN branches).
DfptLinked(r, fl, need) ==
    LET out == HasAbiext(fl.files[need.node], need.ext)
        dest == [ext |-> need.ext, pert |-> 0, nc |-> out.nc]
    IN IF r.exc # "none" THEN r
       ELSE IF out.exc # "none" THEN [r EXCEPT !.exc = out.exc]
       ELSE IF ~out.found THEN [r EXCEPT !.exc = "RuntimeError"]
       ELSE [r EXCEPT !.links = MySymlink(r.links, dest, need.node)]

\* make_links of the family: the links after it and what it raised. The
\* links made before an error stay.
RECURSIVE LinksMade(_, _, _, _, _)
LinksMade(r, fl, needs, fam, num_restarts) ==
    IF needs = <<>> THEN r
    ELSE LinksMade(IF fam = "DfptTask" THEN DfptLinked(r, fl, Head(needs))
                   ELSE Linked(r, fl, Head(needs), num_restarts),
                   fl, Tail(needs), fam, num_restarts)

MakeLinks(fl, fam, num_restarts) ==
    LinksMade([links |-> fl.links, exc |-> "none"], fl,
              FilepathsAndExts(fl.deps), fam, num_restarts)

(***************************************************************************)
(* FilepathFixer: the names of the output files with a number appended to  *)
(* the extension, and fix_ofiles, which renames what fix_paths returns.    *)
(***************************************************************************)
\* The extensions FilepathFixer has a regular expression for.
FixerExts == {"1WF", "1DEN"}

\* FilepathFixer._fix_path: the new path and the extension of a file whose
\* name matches (\w+_)EXT(\d+)(\.nc)?$, the number dropped and ".nc" kept;
\* no new path for any other name.
FixPath(path) ==
    IF path.ext \in FixerExts /\ path.pert # 0
    THEN [fixed |-> TRUE, newpath |-> [path EXCEPT !.pert = 0], ext |-> path.ext]
    ELSE [fixed |-> FALSE, newpath |-> path, ext |-> "none"]

\* The loop of FilepathFixer.fix_paths: old2new as pairs, the extensions
\* fixed so far and what was raised.
RECURSIVE FixPaths(_, _)
FixPaths(paths, r) ==
    IF paths = <<>> \/ r.exc # "none" THEN r
    ELSE LET path == Head(paths)
             fix == FixPath(path)
         IN FixPaths(Tail(paths),
                IF ~fix.fixed THEN r
                ELSE IF fix.ext \notin r.fixed_exts
                     THEN IF fix.ext = "1WF" THEN r
                          ELSE [r EXCEPT !.exc = "ValueError"]
                     ELSE [r EXCEPT !.fixed_exts = @ \cup {fix.ext},
                                    !.old2new = @ \cup {<<path, fix.newpath>>}])

\* The place of a file name in the sorted listing of a directory: by
\* extension, then the bare name, ".nc", and the numbers as strings.
NameRank(f) ==
    (CASE f.ext = "1DEN" -> 0 [] f.ext = "1WF" -> 1 [] OTHER -> 2) * 6
    + (CASE f.pert = 0 -> 0 [] f.pert = 17 -> 2 [] OTHER -> 4)
    + (IF f.nc THEN 1 ELSE 0)

\* Directory.list_filepaths: the files of a directory, sorted.
RECURSIVE ListFilepaths(_)
ListFilepaths(files) ==
    IF files = {} THEN <<>>
    ELSE LET first == CHOOSE f \in files :
                          \A g \in files : NameRank(f) <= NameRank(g)
         IN <<first>> \o ListFilepaths(files \ {first})

\* Task.fix_ofiles on the files of the output directory: the files after
\* the renames and what was raised.
FixOfiles(files) ==
    LET r == FixPaths(ListFilepaths(files),
                      [old2new |-> {}, fixed_exts |-> {}, exc |-> "none"])
    IN [files |-> IF r.exc # "none" THEN files
                  ELSE (files \ {x[1] : x \in r.old2new})
                       \cup {x[2] : x \in r.old2new},
        old2new |-> r.old2new, exc |-> r.exc]

(***************************************************************************)
(* Garbage collection: clean_output_files removes, from the output         *)
(* directory of the Task and of its parents, the file of each extension of *)
(* the collector that no child still to be OK needs.                       *)
(***************************************************************************)
\* The files a consumer links for an extension it needs: the file named by
\* the extension (Task.make_links), and for 1DEN the files DEN with a number
\* (DfptTask.make_links).
NeededFiles(files, ext) ==
    IF ext = "1DEN" THEN {f \in files : f.ext = "DEN" /\ f.pert # 0}
    ELSE {f \in files : f.ext = ext /\ f.pert = 0}

\* The children of a node: the consumers that depend on it, and the Task
\* when the node is one of its parents, each with the extensions of its
\* first dependency on the node.
ChildrenOf(fl, n, status) ==
    {[exts |-> fl.consumers[k].exts, ok |-> fl.consumers[k].ok] :
        k \in {c \in Consumers : ProducerOf[c] = n /\ fl.consumers[c].exts # <<>>}}
    \cup {[exts |-> fl.deps[i].exts, ok |-> (status = "OK")] :
             i \in {j \in DOMAIN fl.deps :
                       /\ fl.deps[j].node = n
                       /\ \A h \in 1..(j - 1) : fl.deps[h].node # n}}

\* The extensions to keep in a node: those needed by a child that is not OK.
ExceptExts(fl, n, status) ==
    UNION {{ch.exts[i] : i \in DOMAIN ch.exts} :
              ch \in {x \in ChildrenOf(fl, n, status) : ~x.ok}}

\* Directory.remove_exts: for each extension the file has_abiext gives is
\* removed. The extensions are taken in no given order, so that with an
\* error the files of all the other extensions may be gone.
RemoveExts(files, exts) ==
    [files |-> files \ {f \in files :
                           \E e \in exts :
                               /\ HasAbiext(files, e).found
                               /\ f.ext = e
                               /\ f \in (IF \E g \in files : g.ext = e /\ g.pert = 0
                                         THEN {g \in files : g.ext = e /\ g.pert = 0}
                                         ELSE {g \in files : g.ext = e})},
     exc |-> IF \E e \in exts : HasAbiext(files, e).exc # "none"
             THEN "ValueError" ELSE "none"]

\* Task.clean_output_files with follow_parents: the files of the nodes
\* after it, and what it raised. After an error nothing more is removed.
RECURSIVE ParentsCleaned(_, _, _, _)
ParentsCleaned(r, fl, parents, status) ==
    IF parents = <<>> \/ r.exc # "none" THEN r
    ELSE LET n == Head(parents).node
             removed == RemoveExts(r.files[n], fl.gc \ ExceptExts(fl, n, status))
         IN ParentsCleaned([r EXCEPT !.files[n] = removed.files,
                                     !.exc = removed.exc],
                           fl, Tail(parents), status)

CleanOutputFiles(fl, status) ==
    LET removed == RemoveExts(fl.files["t"], fl.gc \ ExceptExts(fl, "t", status))
    IN ParentsCleaned([files |-> [fl.files EXCEPT !["t"] = removed.files],
                       exc |-> removed.exc],
                      fl, fl.deps, status)

(***************************************************************************)
(* Managers as objects. Two Tasks are given managers; heap.objs gives the  *)
(* state of the manager object at an address (live: there is an object),   *)
(* heap.ref the address of the manager of a Task, 0 when it has none. The  *)
(* object at address 1 is the manager of the flow, which the Tasks are     *)
(* given. The state of a manager is the position of its active adapter,    *)
(* the MPI processes and the excluded nodes of that adapter, and           *)
(* policy.autoparal.                                                       *)
(***************************************************************************)
Tasks == {"t1", "t2"}

Addresses == 1..(Cardinality(Tasks) + 2)

NoObject ==
    [live |-> FALSE, qadpos |-> 0, mpi_procs |-> 1, autoparal |-> 1,
     excluded |-> FALSE]

NoHeap == [objs |-> [a \in Addresses |-> NoObject], ref |-> [t \in Tasks |-> 0]]

\* The Task t gets the object obj as its manager: the object is put at an
\* address that no Task refers to, and the object that only t referred to
\* is collected.
Allocated(h, t, obj) ==
    LET Free == CHOOSE a \in Addresses \ {1} : \A u \in Tasks : h.ref[u] # a
        Old == h.ref[t]
        Shared == Old = 1 \/ \E u \in Tasks \ {t} : h.ref[u] = Old
    IN [objs |-> [a \in Addresses |->
                     IF a = Free THEN obj
                     ELSE IF a = Old /\ ~Shared THEN NoObject
                     ELSE h.objs[a]],
        ref |-> [h.ref EXCEPT ![t] = Free]]

\* set_manager that keeps the manager it is given (C24 depends on the copy).
SetManager_NoCopy(h, t, given) ==
    [objs |-> [a \in Addresses |->
                  IF a = h.ref[t] /\ a # given /\ a # 1
                     /\ \A u \in Tasks \ {t} : h.ref[u] # a
                  THEN NoObject ELSE h.objs[a]],
     ref |-> [h.ref EXCEPT ![t] = given]]

\* Task.set_manager: self.manager = manager.deepcopy(), where given is the
\* address of the manager passed to it.
SetManager(h, t, given) == Allocated(h, t, h.objs[given])

\* Task.with_fixed_mpi_omp: a deep copy of the manager of the Task, or of
\* the manager of the flow when the Task has none, with autoparal disabled
\* and the MPI processes set.
WithFixedMpiOmp(h, t, mpi) ==
    Allocated(h, t, [h.objs[IF h.ref[t] = 0 THEN 1 ELSE h.ref[t]]
                       EXCEPT !.autoparal = 0, !.mpi_procs = mpi])

\* What is done to the manager of a Task on its behalf: select_qadapter
\* accepts a configuration on an adapter, a resource is increased, nodes
\* are excluded.
ManagerCalls ==
    [kind : {"select"}, qadpos : {0, 1}, mpi : {1, 2}]
    \cup [kind : {"increase_ncpus", "exclude_nodes"}, qadpos : {0}, mpi : {1}]

OnBehalf(h, t, call) ==
    [h EXCEPT !.objs[h.ref[t]] =
        CASE call.kind = "select" ->
                [@ EXCEPT !.qadpos = call.qadpos, !.mpi_procs = call.mpi]
          [] call.kind = "increase_ncpus" -> [@ EXCEPT !.mpi_procs = 2]
          [] OTHER -> [@ EXCEPT !.excluded = TRUE]]

(***************************************************************************)
(* The initial state: Task.__init__.                                       *)
(***************************************************************************)
InitOf(families) ==
    /\ \E fam \in families :
       \E g \in (IF fam = "ManyBodyTask" THEN GwmemInputs ELSE {11}) :
          task = [fam |-> fam, status |-> "INIT", finalized |-> FALSE,
                  collinear_done |-> FALSE, n_on_ok |-> 0,
                  num_restarts |-> 0, rc |-> "unset", qjob |-> FALSE,
                  dt |-> [submission |-> FALSE, start |-> FALSE, end |-> FALSE],
                  gwmem |-> g, vars |-> {}, pconfs |-> FALSE]
    /\ wd = [out |-> FALSE, log |-> "absent", stderr |-> "absent",
             qerr |-> "absent", qout |-> FALSE, abort |-> FALSE,
             lock |-> FALSE, outdata |-> {}, indata |-> {}]
    /\ proc = "fake"
    /\ manager = NoManager
    /\ hints = NoHints
    /\ heap = NoHeap
    /\ flow = NoFlow

Init == InitOf(Families)

\* The families whose life differs: the plain one and the two-stage one.
InitScf == InitOf({"AbinitTask", "CollinearScfTask"})

World == [t |-> task, d |-> wd, p |-> proc, calls |-> <<>>, log |-> <<>>]

Budget == task.num_restarts < MaxRestarts

\* The step of an operation: its effects on the Task, the files, the process.
Apply(r) ==
    /\ task' = r.w.t
    /\ wd' = r.w.d
    /\ proc' = r.w.p
    /\ UNCHANGED <<manager, hints, heap, flow>>

(***************************************************************************)
(* The operations a caller can invoke.                                     *)
(***************************************************************************)
DoSetStatus ==
    /\ Budget
    /\ \E s \in Statuses : \E inp \in (IF s = "OK" THEN NestedInputs ELSE {DefaultInp}) :
         Apply(SetStatus(World, s, "caller", inp))

DoCheckStatus ==
    /\ Budget
    /\ \E inp \in CheckInputs : Apply(CheckStatus(World, inp))

DoLock ==
    /\ Budget
    /\ Apply(Lock(World))

DoUnlock ==
    /\ Budget
    /\ \E check \in BOOLEAN : \E inp \in (IF check THEN CheckInputs ELSE {DefaultInp}) :
         Apply(Unlock(World, check, inp))

DoStart ==
    /\ Budget
    /\ \E inp \in StartInputs : Apply(Start(World, inp))

\* start() under a policy or a manager that rules negotiation out.
DoStartPlain ==
    /\ Budget
    /\ \E inp \in PlainInputs : Apply(Start(World, inp))

DoPoll ==
    /\ Budget
    /\ Apply(Poll(World))

DoWait ==
    /\ Budget
    /\ \E code \in {"exit0", "exitN"} : Apply(Wait(World, code))

DoKill ==
    /\ Budget
    /\ Apply(Kill(World))

DoReset ==
    /\ Budget
    /\ Apply(Reset(World))

DoCancel ==
    /\ Budget
    /\ \E cancelled \in BOOLEAN : Apply(Cancel(World, cancelled))

DoRestart ==
    /\ Budget
    /\ \E inp \in StartInputs :
         Apply(IF task.fam = "CollinearScfTask"
               THEN ScfRestart(World, inp) ELSE RestartSubmit(World, inp))

DoResetFromScratch ==
    /\ Budget
    /\ Apply(ResetFromScratch(World))

DoFixQueueCritical ==
    /\ Budget
    /\ \E f \in FixInputs :
         Apply(FixQueueCritical(World, f.errs, f.ms, f.ls, f.qa))

(***************************************************************************)
(* The environment: the attached process ends, the job writes its files,   *)
(* the queue cancels the job.                                              *)
(***************************************************************************)
ProcessExits ==
    /\ proc = "running"
    /\ \E code \in {"exit0", "exitN"} : proc' = code
    /\ UNCHANGED <<task, wd, manager, hints, heap, flow>>

Written(e) ==
    [wd EXCEPT !.out = e.out, !.log = e.log, !.stderr = e.stderr,
               !.qerr = e.qerr, !.qout = e.qout, !.abort = e.abort,
               !.outdata = @ \cup e.data]

JobWrites ==
    /\ task.qjob
    /\ \E e \in Evidence :
         /\ e.log = "completed_crit" => HasCriticalEvents(task.fam)
         /\ e.data # {} => RestartsFromFiles(task.fam)
         /\ wd' = Written(e)
    /\ UNCHANGED <<task, proc, manager, hints, heap, flow>>

JobCancelled ==
    /\ proc = "running"
    /\ proc' = "exitN"
    /\ \E e \in CancelEvidence : wd' = Written(e)
    /\ UNCHANGED <<task, manager, hints, heap, flow>>

(***************************************************************************)
(* The life of a Task between the launcher and the job: it is locked and   *)
(* unlocked, started, polled, its status is derived from what the job      *)
(* leaves behind, and it is reset.                                         *)
(***************************************************************************)
Next ==
    \/ DoCheckStatus
    \/ DoLock
    \/ DoUnlock
    \/ DoStartPlain
    \/ DoPoll
    \/ DoReset
    \/ ProcessExits
    \/ JobWrites

Spec == InitScf /\ [][Next]_vars

(***************************************************************************)
(* The recovery loop of the scheduler: the queue cancels the job of a      *)
(* started Task, the status is derived, fix_queue_critical is called.      *)
(***************************************************************************)
NextFix ==
    \/ DoStartPlain
    \/ JobCancelled
    \/ DoPoll
    \/ DoCheckStatus
    \/ DoFixQueueCritical

SpecFix == Init /\ [][NextFix]_vars

(***************************************************************************)
(* The restart of a Task from the files of its previous run: the Task is   *)
(* started, the job writes its files, the status is derived, restart() of  *)
(* the family is called.                                                   *)
(***************************************************************************)
InitRestart == InitOf(RestartFamilies)

\* The job leaves files from which its family can restart.
FilesWritten ==
    /\ task.qjob
    /\ \E files \in SUBSET RestartFiles(task.fam) :
         wd' = [wd EXCEPT !.outdata = @ \cup files]
    /\ UNCHANGED <<task, proc, manager, hints, heap, flow>>

DoFamilyRestart ==
    /\ Budget
    /\ \E inp \in PlainInputs : Apply(FamilyRestart(World, inp))

NextRestart ==
    \/ DoStartPlain
    \/ JobWrites
    \/ FilesWritten
    \/ DoCheckStatus
    \/ DoFamilyRestart

SpecRestart == InitRestart /\ [][NextRestart]_vars

(***************************************************************************)
(* The repair of a Task that ABINIT has left in ABICRITICAL: the Task is   *)
(* started, the job writes, check_status derives the status and            *)
(* fix_abicritical is run with the registered handlers on the events of    *)
(* the report.                                                             *)
(***************************************************************************)
EventLists == UNION {[1..n -> EventKinds] : n \in 0..MaxEvents}

HandlerLists == UNION {[1..n -> HandlerKinds] : n \in 0..MaxHandlers}

\* The events that get_event_report can give for the files at hand: none
\* without a log and an abort file; an error among them when the log holds
\* errors or cannot be parsed and when there is an abort file; warnings only
\* otherwise.
ReportOf(d) ==
    IF d.log = "absent" /\ ~d.abort THEN {<<>>}
    ELSE {events \in EventLists :
             (d.abort \/ d.log \in {"errors", "garbled"})
             <=> \E j \in DOMAIN events : events[j] = "error"}

DoFixAbicriticalWith ==
    /\ Budget
    /\ \E events \in ReportOf(wd) : \E handlers \in HandlerLists :
         Apply(FixAbicriticalWith(World, events, handlers))

NextAbifix ==
    \/ DoStartPlain
    \/ JobWrites
    \/ DoCheckStatus
    \/ DoFixAbicriticalWith

SpecAbifix == InitScf /\ [][NextAbifix]_vars

(***************************************************************************)
(* The start of a Task with a negotiation of the resources: start() runs   *)
(* the probe, and fix_abicritical when the probe raises; the job writes,   *)
(* check_status derives the status and reset() rewinds the Task.           *)
(***************************************************************************)
NextStart ==
    \/ DoStart
    \/ JobWrites
    \/ DoCheckStatus
    \/ DoReset

SpecStart == InitScf /\ [][NextStart]_vars

(***************************************************************************)
(* The links of a Task to the files of its producers: the Task is given    *)
(* its dependencies, the producers write their files, make_links is called *)
(* any number of times and the Task is reset from scratch.                 *)
(***************************************************************************)
\* The dependencies a Task can be built with: one per producer, in any order.
DependencyLists ==
    {<<d>> : d \in Dependencies}
    \cup {<<d, e>> : <<d, e>> \in {x \in Dependencies \X Dependencies :
                                       x[1].node # x[2].node}}

InitLinks == InitOf({"AbinitTask", "DfptTask"})

DoAddDeps ==
    /\ flow.deps = <<>>
    /\ \E deps \in DependencyLists : flow' = [flow EXCEPT !.deps = deps]
    /\ UNCHANGED <<task, wd, proc, manager, hints, heap>>

ProducerWrites ==
    /\ flow.deps # <<>>
    /\ \E n \in Producers, f \in OutFiles :
         /\ f \notin flow.files[n]
         /\ flow' = [flow EXCEPT !.files[n] = @ \cup {f}]
    /\ UNCHANGED <<task, wd, proc, manager, hints, heap>>

DoMakeLinks ==
    /\ flow.deps # <<>>
    /\ flow' = [flow EXCEPT
                  !.links = MakeLinks(flow, task.fam, task.num_restarts).links]
    /\ UNCHANGED <<task, wd, proc, manager, hints, heap>>

NextLinks == DoAddDeps \/ ProducerWrites \/ DoMakeLinks \/ DoResetFromScratch

SpecLinks == InitLinks /\ [][NextLinks]_vars

(***************************************************************************)
(* The output files of a Task: the job writes files whose extension has a  *)
(* number appended, and the files are fixed when the Task is DONE.         *)
(***************************************************************************)
\* The files a job writes: first-order files with and without a number.
JobFiles ==
    [ext : FixerExts, pert : {0, 5, 17}, nc : BOOLEAN]
    \cup {[ext |-> "WFK", pert |-> 0, nc |-> FALSE]}

JobWritesFile ==
    /\ \E f \in JobFiles :
         /\ f \notin flow.files["t"]
         /\ flow' = [flow EXCEPT !.files["t"] = @ \cup {f}]
    /\ UNCHANGED <<task, wd, proc, manager, hints, heap>>

DoFixOfiles ==
    /\ flow' = [flow EXCEPT !.files["t"] = FixOfiles(@).files]
    /\ UNCHANGED <<task, wd, proc, manager, hints, heap>>

NextOfiles == JobWritesFile \/ DoFixOfiles

SpecOfiles == InitScf /\ [][NextOfiles]_vars

(***************************************************************************)
(* Garbage collection in a flow: the flow is built with the dependencies   *)
(* of the Task and of the consumers and with a collector, the nodes write  *)
(* their files, the consumers become OK, and the Task is set to OK, which  *)
(* collects.                                                               *)
(***************************************************************************)
\* The files of the nodes: a wavefunction file, a density file, and a
\* first-order density file, whose name is DEN and a number.
GcFiles ==
    {[ext |-> "WFK", pert |-> 0, nc |-> FALSE],
     [ext |-> "DEN", pert |-> 0, nc |-> FALSE],
     [ext |-> "DEN", pert |-> 5, nc |-> FALSE]}

ConsumerExts == {<<"WFK">>, <<"DEN">>, <<"1DEN">>}

DoBuildFlow ==
    /\ flow.deps = <<>>
    /\ \E exts \in {d.exts : d \in Dependencies}, c \in ConsumerExts,
          s \in ConsumerExts, gc \in (SUBSET LinkExts) \ {{}} :
         flow' = [flow EXCEPT !.deps = <<[node |-> "p", exts |-> exts]>>,
                              !.consumers["c"].exts = c,
                              !.consumers["s"].exts = s,
                              !.gc = gc]
    /\ UNCHANGED <<task, wd, proc, manager, hints, heap>>

NodeWrites ==
    /\ flow.deps # <<>>
    /\ \E n \in {"p", "t"}, f \in GcFiles :
         /\ n = "t" => task.status # "OK"
         /\ f \notin flow.files[n]
         /\ flow' = [flow EXCEPT !.files[n] = @ \cup {f}]
    /\ UNCHANGED <<task, wd, proc, manager, hints, heap>>

ConsumerOk ==
    /\ flow.deps # <<>>
    /\ \E k \in Consumers :
         /\ ~flow.consumers[k].ok
         /\ flow' = [flow EXCEPT !.consumers[k].ok = TRUE]
    /\ UNCHANGED <<task, wd, proc, manager, hints, heap>>

\* set_status(S_OK): the callback, then the collection when the Task is OK
\* and the flow has a collector.
DoSetStatusOk ==
    /\ flow.deps # <<>>
    /\ LET Then(r) ==
               /\ task' = r.w.t
               /\ wd' = r.w.d
               /\ proc' = r.w.p
               /\ flow' = IF r.exc = "none" /\ r.w.t.status = "OK" /\ flow.gc # {}
                          THEN [flow EXCEPT
                                  !.files = CleanOutputFiles(flow, r.w.t.status).files]
                          ELSE flow
       IN Then(SetStatus(World, "OK", "caller", DefaultInp))
    /\ UNCHANGED <<manager, hints, heap>>

NextGc == DoBuildFlow \/ NodeWrites \/ ConsumerOk \/ DoSetStatusOk

InitGc == InitOf({"AbinitTask"})

SpecGc == InitGc /\ [][NextGc]_vars

(***************************************************************************)
(* The managers of two Tasks of a flow: each Task is given a manager, the  *)
(* manager of the flow or that of the other Task, and adapters are changed *)
(* on behalf of a Task.                                                    *)
(***************************************************************************)
InitManagers ==
    /\ task = [fam |-> "AbinitTask", status |-> "INIT", finalized |-> FALSE,
               collinear_done |-> FALSE, n_on_ok |-> 0,
               num_restarts |-> 0, rc |-> "unset", qjob |-> FALSE,
               dt |-> [submission |-> FALSE, start |-> FALSE, end |-> FALSE],
               gwmem |-> 11, vars |-> {}, pconfs |-> FALSE]
    /\ wd = [out |-> FALSE, log |-> "absent", stderr |-> "absent",
             qerr |-> "absent", qout |-> FALSE, abort |-> FALSE,
             lock |-> FALSE, outdata |-> {}, indata |-> {}]
    /\ proc = "fake"
    /\ manager = NoManager
    /\ hints = NoHints
    /\ \E mpi \in {1, 2}, autoparal \in {0, 1} :
         heap = [NoHeap EXCEPT !.objs[1] = [NoObject EXCEPT !.live = TRUE,
                                                            !.mpi_procs = mpi,
                                                            !.autoparal = autoparal]]
    /\ flow = NoFlow

DoSetManager ==
    /\ \E t \in Tasks : \E given \in {a \in Addresses : heap.objs[a].live} :
         heap' = SetManager(heap, t, given)
    /\ UNCHANGED <<task, wd, proc, manager, hints, flow>>

DoWithFixedMpiOmp ==
    /\ \E t \in Tasks : \E mpi \in {1, 2} : heap' = WithFixedMpiOmp(heap, t, mpi)
    /\ UNCHANGED <<task, wd, proc, manager, hints, flow>>

ManagerCalled ==
    /\ \E t \in Tasks : \E call \in ManagerCalls :
         /\ heap.ref[t] # 0
         /\ heap' = OnBehalf(heap, t, call)
    /\ UNCHANGED <<task, wd, proc, manager, hints, flow>>

NextManagers ==
    \/ DoSetManager
    \/ DoWithFixedMpiOmp
    \/ ManagerCalled

SpecManagers == InitManagers /\ [][NextManagers]_vars

(***************************************************************************)
(* The negotiation of the resources: a TaskManager is built from its       *)
(* descriptors, the hints of a probe are parsed, select_qadapter chooses.  *)
(***************************************************************************)
InitSelect ==
    /\ task = [fam |-> "AbinitTask", status |-> "INIT", finalized |-> FALSE,
               collinear_done |-> FALSE, n_on_ok |-> 0,
               num_restarts |-> 0, rc |-> "unset", qjob |-> FALSE,
               dt |-> [submission |-> FALSE, start |-> FALSE, end |-> FALSE],
               gwmem |-> 11, vars |-> {}, pconfs |-> FALSE]
    /\ wd = [out |-> FALSE, log |-> "absent", stderr |-> "absent",
             qerr |-> "absent", qout |-> FALSE, abort |-> FALSE,
             lock |-> FALSE, outdata |-> {}, indata |-> {}]
    /\ proc = "fake"
    /\ \E descs \in DescriptorLists : manager = [NoManager EXCEPT !.descs = descs]
    /\ hints = NoHints
    /\ heap = NoHeap
    /\ flow = NoFlow

\* The manager after TaskManager.__init__ with the result r: the
\* descriptors are popped from the arguments, the adapters are kept.
Constructed(r, policy) ==
    IF r.exc = "none"
    THEN [manager EXCEPT !.descs = <<>>, !.built = "yes", !.qads = r.qads,
                         !.qadpos = r.qadpos, !.policy = policy]
    ELSE [manager EXCEPT !.built = "failed"]

DoTaskManagerInit ==
    /\ manager.built = "no"
    /\ \E policy \in Policies :
         manager' = Constructed(TaskManagerInit(manager.descs), policy)
    /\ UNCHANGED <<task, wd, proc, hints, heap, flow>>

\* The probe of autoparal_run reports its configurations.
HintsParsed ==
    /\ manager.built = "yes"
    /\ hints.parsed = "no"
    /\ \E confs \in HintLists : hints' = [NoHints EXCEPT !.parsed = "yes", !.confs = confs]
    /\ UNCHANGED <<task, wd, proc, manager, heap, flow>>

\* The step of select_qadapter with the result r.
Selected(r) ==
    /\ manager' = r.m
    /\ hints' = [hints EXCEPT !.parsed = "used", !.exc = r.exc, !.ret = r.ret]

DoSelectQadapter ==
    /\ manager.built = "yes"
    /\ hints.parsed = "yes"
    /\ Selected(SelectQadapter(manager, manager.policy, hints.confs))
    /\ UNCHANGED <<task, wd, proc, heap, flow>>

NextSelect ==
    \/ DoTaskManagerInit
    \/ HintsParsed
    \/ DoSelectQadapter

SpecSelect == InitSelect /\ [][NextSelect]_vars

(***************************************************************************)
(* C1 as stated: set_status of a LOCKED Task raises and leaves it LOCKED;  *)
(* set_status(LOCKED) raises from every status and leaves the status as it *)
(* is; no operation but unlock() takes a Task out of LOCKED; after         *)
(* unlock() the status is READY.                                           *)
(***************************************************************************)
C1_AsClaimed ==
    LET Rejected(r) == r.exc # "none" /\ r.w.t.status = task.status
        Kept(r) == r.w.t.status = "LOCKED"
    IN /\ task.status = "LOCKED" =>
            \A s \in Statuses : \A i \in NestedInputs :
               Rejected(SetStatus(World, s, "caller", i))
       /\ \A i \in NestedInputs : Rejected(SetStatus(World, "LOCKED", "caller", i))
       /\ task.status = "LOCKED" =>
            /\ \A i \in CheckInputs : Kept(CheckStatus(World, i))
            /\ Kept(Lock(World))
            /\ \A i \in StartInputs : Kept(Start(World, i))
            /\ Kept(Poll(World))
            /\ \A code \in {"exit0", "exitN"} : Kept(Wait(World, code))
            /\ Kept(Kill(World))
            /\ Kept(Reset(World))
            /\ \A cancelled \in BOOLEAN : Kept(Cancel(World, cancelled))
            /\ \A i \in StartInputs :
                 Kept(RestartSubmit(World, i)) /\ Kept(ScfRestart(World, i))
            /\ Kept(ResetFromScratch(World))
            /\ \A h \in {"none", "nofix", "fix"} : Kept(FixAbicritical(World, h))
            /\ \A f \in FixInputs :
                 Kept(FixQueueCritical(World, f.errs, f.ms, f.ls, f.qa))
       /\ task.status = "LOCKED" =>
            \A check \in BOOLEAN : \A i \in CheckInputs :
               Unlock(World, check, i).w.t.status = "READY"

(***************************************************************************)
(* C1, amended: set_status of a LOCKED Task raises and leaves it LOCKED;   *)
(* set_status(LOCKED) raises from every status and leaves the status as it *)
(* is; no operation but unlock() takes a Task out of LOCKED. unlock() with *)
(* check_status=False leaves the status READY; unlock() with check_status  *)
(* (the default) leaves the status that check_status derives from READY,   *)
(* which is never LOCKED.                                                  *)
(***************************************************************************)
C1_LockedUntilUnlock ==
    LET Rejected(r) == r.exc # "none" /\ r.w.t.status = task.status
        Kept(r) == r.w.t.status = "LOCKED"
    IN /\ task.status = "LOCKED" =>
            \A s \in Statuses : \A i \in NestedInputs :
               Rejected(SetStatus(World, s, "caller", i))
       /\ \A i \in NestedInputs : Rejected(SetStatus(World, "LOCKED", "caller", i))
       /\ task.status = "LOCKED" =>
            /\ \A i \in CheckInputs : Kept(CheckStatus(World, i))
            /\ Kept(Lock(World))
            /\ \A i \in StartInputs : Kept(Start(World, i))
            /\ Kept(Poll(World))
            /\ \A code \in {"exit0", "exitN"} : Kept(Wait(World, code))
            /\ Kept(Kill(World))
            /\ Kept(Reset(World))
            /\ \A cancelled \in BOOLEAN : Kept(Cancel(World, cancelled))
            /\ \A i \in StartInputs :
                 Kept(RestartSubmit(World, i)) /\ Kept(ScfRestart(World, i))
            /\ Kept(ResetFromScratch(World))
            /\ \A h \in {"none", "nofix", "fix"} : Kept(FixAbicritical(World, h))
            /\ \A f \in FixInputs :
                 Kept(FixQueueCritical(World, f.errs, f.ms, f.ls, f.qa))
       /\ task.status = "LOCKED" =>
            /\ Unlock(World, FALSE, DefaultInp).exc = "none"
            /\ Unlock(World, FALSE, DefaultInp).w.t.status = "READY"
            /\ \A i \in CheckInputs :
                 Unlock(World, TRUE, i).w.t.status \in Statuses \ {"LOCKED"}

\* A LOCKED Task whose recorded exit code is not 0: set_status is rejected,
\* unlock(check_status=False) gives READY, unlock() gives QCRITICAL.
C1_Witness ==
    /\ task.status = "LOCKED"
    /\ task.rc = "nz"
    /\ SetStatus(World, "READY", "caller", DefaultInp).exc = "RuntimeError"
    /\ Unlock(World, FALSE, DefaultInp).w.t.status = "READY"
    /\ Unlock(World, TRUE, DefaultInp).w.t.status = "QCRITICAL"

C3_AsClaimed ==
    \A i \in CheckInputs : CheckStatus(World, i).exc = "none"

(***************************************************************************)
(* C4 as stated: in LOCKED and in ERROR check_status returns that status   *)
(* and changes neither the status nor the timestamps nor the history,      *)
(* whatever the exit code and the files show.                              *)
(***************************************************************************)
C4_AsClaimed ==
    task.status \in {"LOCKED", "ERROR"} =>
       \A i \in CheckInputs :
          LET r == CheckStatus(World, i)
          IN /\ r.exc = "none"
             /\ r.ret = task.status
             /\ r.w.t.status = task.status
             /\ r.w.t.dt = task.dt
             /\ r.w.log = <<>>

C6_AsClaimed ==
    task.status = "QCRITICAL" =>
    \A ls \in BOOLEAN : \A qa \in AdapterAnswers :
       LET r == FixQueueCritical(World, <<"MemoryCancel">>, TRUE, ls, qa)
       IN /\ qa.cores => r.w.calls = <<"increase_ncpus">>
          /\ (~qa.cores /\ qa.mem) =>
               /\ r.w.calls = <<"increase_ncpus_failed", "increase_mem">>
               /\ r.exc = "none"
               /\ r.w.t.status = "READY"
               /\ r.w.t.num_restarts = task.num_restarts + 1
               /\ \E k \in DOMAIN r.w.log : r.w.log[k].msg = "increased mem"

(***************************************************************************)
(* C7: with no queue error recorded and with mem_scales and load_scales    *)
(* both False, fix_queue_critical asks the manager for nothing, resets     *)
(* nothing, sets the status to ERROR and raises FixQueueCriticalError.     *)
(***************************************************************************)
C7_NoOptionsLeft ==
    \A qa \in AdapterAnswers :
       LET r == FixQueueCritical(World, <<>>, FALSE, FALSE, qa)
       IN /\ r.exc = "FixQueueCriticalError"
          /\ r.w.t.status = "ERROR"
          /\ r.w.calls = <<>>
          /\ r.w.t.num_restarts = task.num_restarts
          /\ r.w.d = wd

\* A Task whose cancelled job has put it in QCRITICAL, on which the call
\* gives up, although the adapter would have granted more resources.
C7_Witness ==
    /\ task.status = "QCRITICAL"
    /\ wd.qerr = "nonempty"
    /\ LET r == FixQueueCritical(World, <<>>, FALSE, FALSE,
                                 [cores |-> TRUE, mem |-> TRUE,
                                  time |-> TRUE, excl |-> TRUE])
       IN r.exc = "FixQueueCriticalError" /\ r.w.t.status = "ERROR"

(***************************************************************************)
(* C8 as stated, for a Task in QCRITICAL: for a memory or a time-limit     *)
(* cancellation, when the adapter grants nothing and the hook of the Task  *)
(* does not lower its demand, fix_queue_critical leaves the Task in ERROR, *)
(* not in READY.                                                           *)
(***************************************************************************)
C8_AsClaimed ==
    task.status = "QCRITICAL" =>
    \A e \in {"MemoryCancel", "TimeCancel"} : \A ms, ls \in BOOLEAN :
       LET qa == [cores |-> FALSE, mem |-> FALSE, time |-> FALSE, excl |-> FALSE]
           r  == FixQueueCritical(World, <<e>>, ms, ls, qa)
           lowered == IF e = "MemoryCancel"
                      THEN ReduceMemoryDemand(World).ret = "True"
                      ELSE SpeedUp(World).ret = "True"
       IN ~lowered => r.w.t.status = "ERROR"

(***************************************************************************)
(* C9 as stated, for a Task in QCRITICAL: a call of fix_queue_critical     *)
(* that leaves the Task in ERROR raises FixQueueCriticalError, and a call  *)
(* that raises FixQueueCriticalError leaves the Task in ERROR.             *)
(***************************************************************************)
C9_AsClaimed ==
    task.status = "QCRITICAL" =>
    \A f \in FixInputs :
       LET r == FixQueueCritical(World, f.errs, f.ms, f.ls, f.qa)
       IN r.w.t.status = "ERROR" <=> r.exc = "FixQueueCriticalError"

(***************************************************************************)
(* C10: no call of fix_queue_critical lets a ManagerIncreaseError out:     *)
(* when an escalation primitive has raised it, the call returns or raises  *)
(* FixQueueCriticalError.                                                  *)
(***************************************************************************)
C10_IncreaseErrorAbsorbed ==
    \A f \in FixInputs :
       LET r == FixQueueCritical(World, f.errs, f.ms, f.ls, f.qa)
           Failed == {"increase_ncpus_failed", "increase_mem_failed",
                      "increase_time_failed", "increase_resources_failed",
                      "exclude_nodes_failed"}
       IN /\ r.exc # "ManagerIncreaseError"
          /\ (\E k \in DOMAIN r.w.calls : r.w.calls[k] \in Failed) =>
                r.exc \in {"none", "FixQueueCriticalError"}

\* A Task in QCRITICAL after a time-limit cancellation: increase_time and
\* increase_ncpus both raise ManagerIncreaseError, the call goes on to
\* speed_up and returns.
C10_Witness ==
    /\ task.status = "QCRITICAL"
    /\ task.fam = "AbinitTask"
    /\ LET r == FixQueueCritical(World, <<"TimeCancel">>, TRUE, TRUE,
                                 [cores |-> FALSE, mem |-> TRUE,
                                  time |-> FALSE, excl |-> TRUE])
       IN /\ r.w.calls = <<"increase_time_failed", "increase_ncpus_failed",
                           "speed_up">>
          /\ r.exc = "none"

(***************************************************************************)
(* C13 as claimed: when policy.autoparal is 0 or the manager reaches one   *)
(* core only, autoparal_run returns 0 and changes nothing.                 *)
(***************************************************************************)
C13_AsClaimed ==
    \A a \in {0, 1, 2}, m \in {1, 2}, probe \in {"hints", "crash"} :
       (a = 0 \/ m = 1) =>
          AutoparalRun(World, [DefaultInp EXCEPT !.autoparal = a, !.max_cores = m],
                       probe) = Ok(World, "0")

(***************************************************************************)
(* C13: when policy.autoparal is 0, or is 1 with a manager that reaches    *)
(* one core only, autoparal_run returns 0 at once: no probe, no parse, no  *)
(* selection, no change of the input variables, of the status or of any    *)
(* file, whatever the probe run and the adapters would have answered.      *)
(***************************************************************************)
C13_SkipsNegotiation ==
    \A a \in {0, 1}, m \in {1, 2},
       probe \in {"hints", "late", "nohints", "crash"},
       select \in {"found", "notfound"} :
       (a = 0 \/ m = 1) =>
          AutoparalRun(World, [DefaultInp EXCEPT !.autoparal = a, !.max_cores = m,
                                                 !.select = select],
                       probe) = Ok(World, "0")

\* A Task that start() has submitted through a one-core manager with
\* autoparal on: autoparal_run was called and left the input alone.
C13_Witness ==
    /\ task.status = "SUB"
    /\ task.vars = {}
    /\ ~task.pconfs
    /\ AutoparalRun(World, [DefaultInp EXCEPT !.autoparal = 1], "crash")
          = Ok(World, "0")

(***************************************************************************)
(* C14 as claimed: with return code 0, no abort file and a report that is  *)
(* neither completed nor has errors, check_status gives ERROR when the     *)
(* output was last modified more than frozen_timeout ago and RUN when it   *)
(* was modified more recently.                                             *)
(***************************************************************************)
C14_AsClaimed ==
    (/\ task.status # "LOCKED"
     /\ ReturnCode(World) = "0"
     /\ ~wd.abort
     /\ wd.out
     /\ wd.log = "running") =>
       \A inp \in CheckInputs :
          LET r == CheckStatus(World, inp)
          IN /\ r.exc = "none"
             /\ r.ret = IF inp.stale THEN "ERROR" ELSE "RUN"
             /\ r.w.t.status = r.ret

(***************************************************************************)
(* C19 as claimed: a restart that resubmits with success has incremented   *)
(* num_restarts by exactly 1.                                              *)
(***************************************************************************)
C19_AsClaimed ==
    \A inp \in StartInputs :
       LET s == RestartSubmit(World, inp)
       IN (s.exc = "none" /\ s.ret = "1") =>
             s.w.t.num_restarts = task.num_restarts + 1

(***************************************************************************)
(* C19: _restart sets READY, increments num_restarts by exactly 1 and      *)
(* removes the start-lock marker, and only then calls start(); without     *)
(* resubmission (reset_from_scratch) the Task is left READY and nothing is *)
(* submitted. The resubmitting start() adds 1 more for every               *)
(* reset_from_scratch that fix_abicritical runs while negotiation is       *)
(* recovered.                                                              *)
(***************************************************************************)
C19_RestartCounts ==
    LET n == RestartNoSubmit(World)
        f == ResetFromScratch(World)
        Prepared(r) ==
           /\ r.exc = "none"
           /\ r.ret = "False"
           /\ r.w.t.status = "READY"
           /\ r.w.t.num_restarts = task.num_restarts + 1
           /\ ~r.w.d.lock
           /\ r.w.calls = <<>>
           /\ r.w.p = proc
           /\ r.w.t.qjob = task.qjob
        Fixes(calls) ==
           Cardinality({k \in DOMAIN calls : calls[k] = "handle_task_event"})
    IN IF task.status = "LOCKED"
       THEN n.exc = "RuntimeError" /\ n.w = World /\ f.exc = "RuntimeError"
       ELSE /\ Prepared(n)
            /\ Prepared(f)
            /\ \A inp \in StartInputs :
                  LET s == RestartSubmit(World, inp)
                      st == Start(n.w, inp)
                  IN /\ s.w = st.w
                     /\ s.exc = st.exc
                     /\ s.exc = "none" =>
                          s.w.t.num_restarts
                             = task.num_restarts + 1 + Fixes(s.w.calls)
                     /\ (s.exc = "none" /\ s.ret = "1") =>
                          /\ s.w.t.status = "SUB"
                          /\ s.w.calls[Len(s.w.calls)] = "submit"

\* The second stage of a two-stage Task: _on_ok has restarted it once, the
\* restart has resubmitted it, and a restart from here resubmits again.
C19_Witness ==
    /\ task.collinear_done
    /\ task.num_restarts = 1
    /\ task.status = "SUB"
    /\ wd.lock
    /\ RestartSubmit(World, DefaultInp).ret = "1"
    /\ RestartSubmit(World, DefaultInp).w.t.num_restarts = 2

(***************************************************************************)
(* C20 as claimed: after a restart or a reset_from_scratch the timestamps  *)
(* submission, start and end of the Task are cleared.                      *)
(***************************************************************************)
C20_AsClaimed ==
    LET Cleared(r) ==
           r.exc = "none" =>
              r.w.t.dt = [submission |-> FALSE, start |-> FALSE, end |-> FALSE]
    IN /\ Cleared(RestartNoSubmit(World))
       /\ Cleared(ResetFromScratch(World))

(***************************************************************************)
(* C11: given a non-empty set of configurations, a filter condition of the *)
(* selection (the plain one and the one on vars) never leaves zero         *)
(* candidates: when no configuration satisfies the condition the pool is   *)
(* exactly the one before the filter, else it is the configurations that   *)
(* satisfy it, in their order.                                             *)
(***************************************************************************)
\* The configurations within the cores of the manager: the pool before the
\* filters.
Pool == SelectSeq(hints.confs, LAMBDA c : NumCores(c) <= MaxCores(manager.qads))

C11_RevertOnEmpty ==
    (manager.built = "yes" /\ hints.parsed # "no") =>
       LET None(pool, cond) == \A k \in DOMAIN pool : ~Condition(cond, pool[k])
           Step(before, after, cond) ==
              /\ before # <<>> => after # <<>>
              /\ None(before, cond) => after = before
              /\ ~None(before, cond) => after = SelectWithCondition(before, cond)
           Steps(plain, both) ==
              /\ Step(Pool, plain, manager.policy.condition)
              /\ Step(plain, both, manager.policy.vars_condition)
              /\ Pool # <<>> => GetOrderedWithPolicy(hints.confs, manager.policy,
                                                    MaxCores(manager.qads)) # <<>>
       IN Steps(Filtered(Pool, manager.policy.condition),
                Candidates(hints.confs, manager.policy, MaxCores(manager.qads)))

\* select_qadapter has chosen among hints of which none satisfies the
\* condition of the policy, and none of those satisfies the one on vars.
C11_Witness ==
    /\ manager.built = "yes" /\ hints.parsed = "used" /\ hints.exc = "none"
    /\ manager.policy.condition = "efficiency_gte_1"
    /\ manager.policy.vars_condition = "paral_kgb_eq_1"
    /\ Len(Pool) = 2
    /\ \A k \in DOMAIN Pool : Pool[k].eff < 2 /\ Pool[k].kgb = 0
    /\ Candidates(hints.confs, manager.policy, MaxCores(manager.qads)) = Pool
    /\ hints.ret = Pool[1]

(***************************************************************************)
(* C12 as stated: a TaskManager that is constructed holds adapters with    *)
(* distinct positive priorities in strictly ascending order, and the       *)
(* construction from descriptors of which two have the same positive       *)
(* priority fails.                                                         *)
(***************************************************************************)
C12_AsClaimed ==
    manager.built = "no" =>
       LET SamePriority ==
              \E i, j \in DOMAIN manager.descs :
                 /\ i < j
                 /\ manager.descs[i].priority > 0
                 /\ manager.descs[i].priority = manager.descs[j].priority
           Ascending(qads) ==
              /\ \A k \in DOMAIN qads : qads[k].priority > 0
              /\ \A k \in 1..(Len(qads) - 1) : qads[k].priority < qads[k + 1].priority
           AsClaimed(r) ==
              /\ r.exc = "none" => Ascending(r.qads)
              /\ SamePriority => r.exc = "ValueError"
       IN AsClaimed(TaskManagerInit(manager.descs))

(***************************************************************************)
(* C15: with one ranking priority in {speedup, efficiency, mem_per_proc}   *)
(* the ordered result is a permutation of the candidates, non-increasing   *)
(* in speedup or efficiency, non-decreasing in mem_per_proc, and the       *)
(* configurations with the same key keep their relative order.             *)
(***************************************************************************)
C15_StableSort ==
    (manager.built = "yes" /\ hints.parsed # "no") =>
       LET Key(c) == SortKey(c, manager.policy.priority)
           Ties(q, v) == SelectSeq(q, LAMBDA c : Key(c) = v)
           InOrder(x, y) ==
              IF manager.policy.priority = "mem_per_proc"
              THEN Key(x) <= Key(y) ELSE Key(x) >= Key(y)
           Sorted(cand, out) ==
              /\ Len(out) = Len(cand)
              /\ \A k \in DOMAIN cand : Ties(out, Key(cand[k])) = Ties(cand, Key(cand[k]))
              /\ \A k \in 1..(Len(out) - 1) : InOrder(out[k], out[k + 1])
       IN Sorted(Candidates(hints.confs, manager.policy, MaxCores(manager.qads)),
                 GetOrderedWithPolicy(hints.confs, manager.policy,
                                      MaxCores(manager.qads)))

\* select_qadapter has ordered by speedup three candidates of which the
\* first and the last, two different configurations, have the same speedup
\* and the second a larger one.
C15_Witness ==
    /\ manager.built = "yes" /\ hints.parsed = "used"
    /\ manager.policy.priority = "speedup"
    /\ Len(hints.confs) = 3
    /\ Candidates(hints.confs, manager.policy, MaxCores(manager.qads)) = hints.confs
    /\ hints.confs[1] # hints.confs[3]
    /\ Speedup(hints.confs[1]) = Speedup(hints.confs[3])
    /\ Speedup(hints.confs[2]) > Speedup(hints.confs[1])
    /\ GetOrderedWithPolicy(hints.confs, manager.policy, MaxCores(manager.qads))
          = <<hints.confs[2], hints.confs[1], hints.confs[3]>>

(***************************************************************************)
(* C16: with precedence "qadapter" select_qadapter chooses the first       *)
(* adapter in ascending priority that can host a ranked configuration, no  *)
(* later adapter while an earlier one can host any; on that adapter it     *)
(* picks the first ranked hostable configuration whose cores are a         *)
(* multiple of cores_per_node when the adapter allocates whole nodes and   *)
(* there is one, otherwise the first ranked hostable configuration.        *)
(***************************************************************************)
\* The configurations ranked by the policy of the manager.
Ranked == GetOrderedWithPolicy(hints.confs, manager.policy, MaxCores(manager.qads))

\* The positions in Ranked that the adapter at position k of qads can host,
\* and those that fill whole nodes of it.
Hostable(k) == {i \in DOMAIN Ranked : CanRunPconf(manager.qads[k], Ranked[i])}

WholeNodes(k) ==
    {i \in Hostable(k) : NumCores(Ranked[i]) % manager.qads[k].cores_per_node = 0}

C16_BackendPriority ==
    (/\ manager.built = "yes" /\ hints.parsed = "yes"
     /\ manager.policy.precedence = "qadapter") =>
       LET Preferred(k) ==
              IF manager.qads[k].alloc = "nodes" /\ WholeNodes(k) # {}
              THEN WholeNodes(k) ELSE Hostable(k)
           AsClaimed(r) ==
              /\ r.exc = "none" <=> \E k \in DOMAIN manager.qads : Hostable(k) # {}
              /\ r.exc = "none" =>
                    \E k \in DOMAIN manager.qads : \E i \in Preferred(k) :
                       /\ r.m.qadpos = k - 1
                       /\ r.ret = Ranked[i]
                       /\ \A j \in 1..(k - 1) : Hostable(j) = {}
                       /\ \A j \in Preferred(k) : i <= j
       IN AsClaimed(SelectQadapter(manager, manager.policy, hints.confs))

\* select_qadapter has passed over a first adapter that can host nothing
\* and has chosen, on a second one that allocates whole nodes, the second
\* ranked configuration, the first one not filling whole nodes.
C16_Witness ==
    /\ manager.built = "yes" /\ hints.parsed = "used" /\ hints.exc = "none"
    /\ manager.policy.precedence = "qadapter"
    /\ Len(manager.qads) = 2 /\ manager.qadpos = 1
    /\ manager.qads[2].alloc = "nodes"
    /\ Hostable(1) = {}
    /\ 1 \in Hostable(2) /\ 1 \notin WholeNodes(2)
    /\ 2 \in WholeNodes(2)
    /\ hints.ret = Ranked[2]

(***************************************************************************)
(* C17: with precedence "autoparal_conf" select_qadapter returns the pair  *)
(* (c, a) where c is the first configuration in rank order that has a      *)
(* qualifying adapter and a is the first adapter in ascending priority     *)
(* that can host c and, when it allocates whole nodes, whose               *)
(* cores_per_node divides the cores of c.                                  *)
(***************************************************************************)
\* The adapter at position k of qads qualifies for the configuration at
\* position i of Ranked.
Qualifies(i, k) ==
    /\ CanRunPconf(manager.qads[k], Ranked[i])
    /\ manager.qads[k].alloc = "nodes" =>
          NumCores(Ranked[i]) % manager.qads[k].cores_per_node = 0

C17_BestConfiguration ==
    (/\ manager.built = "yes" /\ hints.parsed = "yes"
     /\ manager.policy.precedence = "autoparal_conf") =>
       LET AsClaimed(r) ==
              /\ r.exc = "none" <=>
                    \E i \in DOMAIN Ranked : \E k \in DOMAIN manager.qads : Qualifies(i, k)
              /\ r.exc = "none" =>
                    \E i \in DOMAIN Ranked : \E k \in DOMAIN manager.qads :
                       /\ Qualifies(i, k)
                       /\ r.ret = Ranked[i]
                       /\ r.m.qadpos = k - 1
                       /\ \A j \in 1..(i - 1) : \A q \in DOMAIN manager.qads : ~Qualifies(j, q)
                       /\ \A q \in 1..(k - 1) : ~Qualifies(i, q)
       IN AsClaimed(SelectQadapter(manager, manager.policy, hints.confs))

\* select_qadapter has passed over the best configuration, for which no
\* adapter qualifies, and has given the second one to the second adapter,
\* the first adapter being able to host it but not on whole nodes.
C17_Witness ==
    /\ manager.built = "yes" /\ hints.parsed = "used" /\ hints.exc = "none"
    /\ manager.policy.precedence = "autoparal_conf"
    /\ Len(manager.qads) = 2 /\ manager.qadpos = 1
    /\ Len(Ranked) >= 2
    /\ \A q \in DOMAIN manager.qads : ~Qualifies(1, q)
    /\ manager.qads[1].alloc = "nodes"
    /\ CanRunPconf(manager.qads[1], Ranked[2])
    /\ Qualifies(2, 2)
    /\ hints.ret = Ranked[2]

(***************************************************************************)
(* C18 as stated: when no pair qualifies select_qadapter raises the        *)
(* "cannot find adapter" error and leaves the manager as it was; when a    *)
(* pair is accepted the active adapter is the winning one and its MPI and  *)
(* OpenMP counts are those of the winning configuration.                   *)
(***************************************************************************)
\* No configuration and adapter qualify under the precedence of the policy.
NoPair ==
    IF manager.policy.precedence = "qadapter"
    THEN \A k \in DOMAIN manager.qads : Hostable(k) = {}
    ELSE \A i \in DOMAIN Ranked : \A k \in DOMAIN manager.qads : ~Qualifies(i, k)

C18_AsClaimed ==
    (manager.built = "yes" /\ hints.parsed = "yes") =>
       LET Active(m) == m.qads[m.qadpos + 1]
           AsClaimed(r) ==
              /\ NoPair => r.exc = "RuntimeError" /\ r.m = manager
              /\ ~NoPair =>
                    /\ r.exc = "none"
                    /\ CanRunPconf(Active(r.m), r.ret)
                    /\ Active(r.m).mpi_procs = r.ret.mpi
                    /\ Active(r.m).omp_threads = r.ret.omp
       IN AsClaimed(SelectQadapter(manager, manager.policy, hints.confs))

(***************************************************************************)
(* C18, amended: when no pair qualifies select_qadapter raises the error   *)
(* and leaves the manager as it was; when a pair is accepted the active    *)
(* adapter is the winning one, it has the MPI processes of the winning     *)
(* configuration, and it has its OpenMP threads when the winning adapter   *)
(* uses OpenMP and the threads it had otherwise; nothing else changes.     *)
(***************************************************************************)
C18_Reconfigured ==
    (manager.built = "yes" /\ hints.parsed = "yes") =>
       LET Won(before, c) ==
              [before EXCEPT !.mpi_procs = c.mpi,
                             !.omp_threads = IF before.has_omp THEN c.omp ELSE @]
           AsAmended(r) ==
              /\ NoPair => r.exc = "RuntimeError" /\ r.m = manager /\ r.ret = NoConf
              /\ ~NoPair =>
                    /\ r.exc = "none"
                    /\ r.m.qadpos + 1 \in DOMAIN manager.qads
                    /\ CanRunPconf(manager.qads[r.m.qadpos + 1], r.ret)
                    /\ r.m = [manager EXCEPT
                                 !.qadpos = r.m.qadpos,
                                 !.qads[r.m.qadpos + 1] = Won(@, r.ret)]
       IN AsAmended(SelectQadapter(manager, manager.policy, hints.confs))

\* select_qadapter has accepted a configuration with two MPI processes and
\* two OpenMP threads on the second adapter, which does not use OpenMP: the
\* adapter is the active one, with two MPI processes and the one thread it
\* had.
C18_Witness ==
    /\ manager.built = "yes" /\ hints.parsed = "used" /\ hints.exc = "none"
    /\ Len(manager.qads) = 2 /\ manager.qadpos = 1
    /\ ~manager.qads[2].has_omp
    /\ hints.ret.mpi = 2 /\ hints.ret.omp = 2
    /\ manager.qads[2].mpi_procs = 2
    /\ manager.qads[2].omp_threads = 1
    /\ manager.qads[1].mpi_procs = 1

(***************************************************************************)
(* C21 as stated: for every family that implements restart, restart() of a *)
(* Task without a usable restart file raises RestartError and leaves the   *)
(* status and num_restarts as they are.                                    *)
(***************************************************************************)
\* The working directory holds no file that restart() of the family of the
\* Task can use.
NoRestartFile ==
    CASE task.fam = "ScfTask" -> wd.outdata \cap {"WFK", "DEN"} = {}
      [] task.fam = "NscfTask" -> "WFK" \notin wd.outdata
      [] task.fam = "RelaxTask" -> wd.outdata \cap {"WFK", "DEN", "TIMDEN", "GSR"} = {}
      [] task.fam = "DfptTask" ->
            /\ Cardinality(wd.outdata \cap {"1WF", "1WF_2"}) # 1
            /\ Cardinality(wd.outdata \cap {"1DEN", "1DEN_2"}) # 1
      [] task.fam = "SigmaTask" -> "QPS" \notin wd.outdata
      [] task.fam = "BseTask" ->
            \/ "BSR" \notin (wd.outdata \cup wd.indata)
            \/ "HAYDR_SAVE" \notin wd.outdata
      [] OTHER -> FALSE

C21_AsClaimed ==
    (task.fam \in RestartFamilies /\ NoRestartFile) =>
       \A inp \in PlainInputs :
          LET AsClaimed(r) ==
                 /\ r.exc = "RestartError"
                 /\ r.w.t.status = task.status
                 /\ r.w.t.num_restarts = task.num_restarts
          IN AsClaimed(FamilyRestart(World, inp))

(***************************************************************************)
(* C22: a cancel that the adapter accepts removes the output, log, stderr  *)
(* and queue-output files and the start-lock marker, clears the job handle *)
(* and sets the status to INIT, and a following start() submits the Task   *)
(* again.                                                                  *)
(***************************************************************************)
C22_CancelRewinds ==
    (task.qjob /\ StatusRank(task.status) < StatusRank("DONE")) =>
       LET Resubmitted(s) ==
              /\ s.exc = "none" /\ s.ret = "1"
              /\ s.w.t.status = "SUB" /\ s.w.t.qjob
              /\ s.w.calls = <<"cancel", "submit">>
           Rewound(c) ==
              /\ c.exc = "none" /\ c.ret = "1"
              /\ ~c.w.d.out /\ c.w.d.log = "absent" /\ c.w.d.stderr = "absent"
              /\ ~c.w.d.qout /\ ~c.w.d.lock
              /\ ~c.w.t.qjob
              /\ c.w.t.status = "INIT"
              /\ \A inp \in {i \in PlainInputs : i.submit = "ok"} :
                    Resubmitted(Start(c.w, inp))
       IN Rewound(Cancel(World, TRUE))

\* A running Task whose job has written its files and whose start-lock
\* marker exists is cancelled, and the start() after the cancel submits.
C22_Witness ==
    /\ task.qjob /\ task.status = "RUN"
    /\ wd.out /\ wd.log = "running" /\ wd.lock /\ wd.qout
    /\ Cancel(World, TRUE).ret = "1"
    /\ Cancel(World, TRUE).w.t.status = "INIT"
    /\ Start(Cancel(World, TRUE).w, DefaultInp).ret = "1"

(***************************************************************************)
(* C23 as stated: poll() of a Task whose process has not terminated, a     *)
(* Task that was never launched included, returns None and leaves the      *)
(* status as it is, and a check_status after the poll derives the status   *)
(* that it derives without the poll.                                       *)
(***************************************************************************)
C23_AsClaimed ==
    ProcessPoll(proc) = "None" =>
       LET SameVerdict(a, b) ==
              /\ a.exc = b.exc
              /\ a.w.t.status = b.w.t.status
           AsClaimed(p) ==
              /\ p.exc = "none" /\ p.ret = "None"
              /\ p.w.t.status = task.status
              /\ \A inp \in CheckInputs :
                    SameVerdict(CheckStatus(p.w, inp), CheckStatus(World, inp))
       IN AsClaimed(Poll(World))

(***************************************************************************)
(* C24: each Task owns a private copy of its manager. No two Tasks refer   *)
(* to one manager object and no Task refers to the manager of the flow;    *)
(* whatever is done to the manager of a Task on its behalf (a selection of *)
(* the active adapter and of its MPI processes, an increase of a resource, *)
(* an exclusion of nodes) leaves the manager of the flow and the manager   *)
(* seen by every other Task as they were.                                  *)
(***************************************************************************)
C24_PrivateManager ==
    \A t \in Tasks : heap.ref[t] # 0 =>
       /\ heap.ref[t] # 1
       /\ heap.objs[heap.ref[t]].live
       /\ \A call \in ManagerCalls :
             LET Unseen(h) ==
                    /\ h.objs[1] = heap.objs[1]
                    /\ \A u \in Tasks \ {t} :
                          /\ h.ref[u] = heap.ref[u]
                          /\ h.ref[u] # 0 => h.objs[h.ref[u]] = heap.objs[heap.ref[u]]
             IN Unseen(OnBehalf(heap, t, call))

\* Both Tasks were given the manager of the flow, nodes were excluded and
\* the second adapter was selected for t1 only, and excluding nodes for t2
\* now changes what t2 sees.
C24_Witness ==
    /\ heap.ref["t1"] # 0 /\ heap.ref["t2"] # 0
    /\ heap.objs[heap.ref["t1"]].excluded
    /\ heap.objs[heap.ref["t1"]].qadpos = 1
    /\ ~heap.objs[heap.ref["t2"]].excluded
    /\ heap.objs[heap.ref["t2"]].qadpos = 0
    /\ ~heap.objs[1].excluded
    /\ LET call == [kind |-> "exclude_nodes", qadpos |-> 0, mpi |-> 1]
       IN OnBehalf(heap, "t2", call).objs[heap.ref["t2"]].excluded

(***************************************************************************)
(* C25 as stated: a fix_queue_critical that returns gives 1 when the Task  *)
(* has been fixed, that is when it is left READY by a remediation, and 0   *)
(* otherwise.                                                              *)
(***************************************************************************)
C25_AsClaimed ==
    task.status = "QCRITICAL" =>
    \A f \in FixInputs :
       LET AsClaimed(r) ==
              r.exc = "none" =>
                 r.ret = IF r.w.t.status = "READY" THEN "1" ELSE "0"
       IN AsClaimed(FixQueueCritical(World, f.errs, f.ms, f.ls, f.qa))

(***************************************************************************)
(* C26 as stated: check_status of a Task that is neither LOCKED nor ERROR  *)
(* takes the first rule that matches. A non-zero exit code of the job      *)
(* script yields QCRITICAL, whatever the abort marker and the run log say; *)
(* without a non-zero exit code an abort marker yields ABICRITICAL,        *)
(* whatever the run log says; without either, a completed run yields       *)
(* UNCONVERGED when the report has an event that is critical for the       *)
(* family of the Task and OK when it has none, and a report of errors      *)
(* yields ABICRITICAL.                                                     *)
(***************************************************************************)
C26_AsClaimed ==
    task.status \notin {"LOCKED", "ERROR"} =>
    \A inp \in CheckInputs :
       LET NonZero == ReturnCode(World) = "nz"
           Rule == CASE NonZero -> "QCRITICAL"
                     [] ~NonZero /\ wd.abort -> "ABICRITICAL"
                     [] ~NonZero /\ ~wd.abort /\ wd.out
                        /\ wd.log = "completed_crit" -> "UNCONVERGED"
                     [] ~NonZero /\ ~wd.abort /\ wd.out
                        /\ wd.log = "completed" -> "OK"
                     [] ~NonZero /\ ~wd.abort /\ wd.out
                        /\ wd.log = "errors" -> "ABICRITICAL"
                     [] OTHER -> "other"
           Yields(r) ==
              Rule # "other" =>
                 /\ r.exc = "none" => r.ret = Rule
                 /\ r.exc = "none" /\ Rule # "OK" => r.w.t.status = Rule
       IN Yields(CheckStatus(World, inp))

(***************************************************************************)
(* C27 as stated: within one fix_abicritical no handler is invoked more    *)
(* than once, whatever its invocations return or raise.                    *)
(***************************************************************************)
C27_AsClaimed ==
    task.status = "ABICRITICAL" =>
    \A events \in ReportOf(wd) : \A handlers \in HandlerLists :
       LET AtMostOnce(calls) ==
              \A a, b \in DOMAIN calls :
                 calls[a].handler = calls[b].handler => a = b
       IN AtMostOnce(HandlerLoop(events, handlers).calls)

(***************************************************************************)
(* C27, amended: within one fix_abicritical a handler is invoked on the    *)
(* events it can handle, in the order of the report, until one of its      *)
(* invocations returns a true result, and never after that: it fixes at    *)
(* most one event, no invocation of it follows the one that fixed, and it  *)
(* is invoked at most once on an event. count is the number of the         *)
(* handlers that fixed an event.                                           *)
(***************************************************************************)
C27_NotAfterFix ==
    task.status = "ABICRITICAL" =>
    \A events \in ReportOf(wd) : \A handlers \in HandlerLists :
       LET Once(l) ==
              /\ \A a, b \in DOMAIN l.calls :
                    /\ l.calls[a].handler = l.calls[b].handler
                    /\ a < b
                    => /\ handlers[l.calls[a].handler].does # "fix"
                       /\ l.calls[a].event < l.calls[b].event
              /\ \A a \in DOMAIN l.calls :
                    events[l.calls[a].event]
                       \in handlers[l.calls[a].handler].can_handle
              /\ l.done = {l.calls[a].handler : a \in
                              {b \in DOMAIN l.calls :
                                  handlers[l.calls[b].handler].does = "fix"}}
              /\ l.count = Cardinality(l.done)
              /\ \A i \in DOMAIN handlers : \A j \in DOMAIN events :
                    /\ events[j] \in handlers[i].can_handle
                    /\ handlers[i].does # "fix"
                    => \E a \in DOMAIN l.calls :
                          l.calls[a] = [handler |-> i, event |-> j]
       IN Once(HandlerLoop(events, handlers))

\* An ABICRITICAL Task whose report holds errors: a handler that fixes is
\* invoked on the first of two errors only, one that does not fix on both.
C27_Witness ==
    /\ task.status = "ABICRITICAL" /\ wd.log = "errors"
    /\ <<"error", "error">> \in ReportOf(wd)
    /\ LET fixing == [can_handle |-> {"error"}, does |-> "fix"]
           failing == [can_handle |-> {"warning", "error"}, does |-> "nofix"]
       IN /\ HandlerLoop(<<"error", "error">>, <<fixing, failing>>).calls
                = <<[handler |-> 1, event |-> 1], [handler |-> 2, event |-> 1],
                    [handler |-> 2, event |-> 2]>>
          /\ FixAbicriticalWith(World, <<"error", "error">>, <<fixing, failing>>).ret = "1"

(***************************************************************************)
(* C28: fix_abicritical of an ABICRITICAL Task returns 1 exactly when a    *)
(* registered handler fixes an event of the report, which is when a        *)
(* handler whose handle_task_event gives a true result can handle one of   *)
(* the events. The Task is then reset from scratch: it is READY, its       *)
(* output, log, stderr and queue files are gone from the working           *)
(* directory, the start-lock marker is removed and nothing is submitted.   *)
(* In every other case (no handler is registered, there is no report, no   *)
(* handler fixes anything) the Task is set to ERROR and 0 is returned.     *)
(***************************************************************************)
C28_FixedIffHandled ==
    task.status = "ABICRITICAL" =>
    \A events \in ReportOf(wd) : \A handlers \in HandlerLists :
       LET fixed == \E i \in DOMAIN handlers : \E j \in DOMAIN events :
                       /\ handlers[i].does = "fix"
                       /\ events[j] \in handlers[i].can_handle
           Outcome(r) ==
              /\ r.exc = "none"
              /\ r.ret = IF fixed THEN "1" ELSE "0"
              /\ \A c \in DOMAIN r.w.calls : r.w.calls[c] # "submit"
              /\ r.w.t.qjob = task.qjob /\ r.w.p = proc
              /\ IF fixed
                 THEN /\ r.w.t.status = "READY"
                      /\ ~r.w.d.out /\ r.w.d.log = "absent"
                      /\ r.w.d.stderr = "absent" /\ r.w.d.qerr = "absent"
                      /\ ~r.w.d.qout /\ ~r.w.d.lock
                      /\ r.w.t.num_restarts = task.num_restarts + 1
                 ELSE /\ r.w.t.status = "ERROR"
                      /\ r.w.d = wd
                      /\ r.w.t.num_restarts = task.num_restarts
       IN Outcome(FixAbicriticalWith(World, events, handlers))

\* An ABICRITICAL Task with an output file and a log of errors: a handler of
\* warnings that fixes leaves it in ERROR, a handler of errors that fixes
\* leaves it READY without its files.
C28_Witness ==
    /\ task.status = "ABICRITICAL" /\ wd.out /\ wd.log = "errors"
    /\ <<"error">> \in ReportOf(wd)
    /\ LET onerror == [can_handle |-> {"error"}, does |-> "fix"]
           onwarning == [can_handle |-> {"warning"}, does |-> "fix"]
       IN /\ FixAbicriticalWith(World, <<"error">>, <<onwarning>>).ret = "0"
          /\ FixAbicriticalWith(World, <<"error">>, <<onwarning>>).w.t.status = "ERROR"
          /\ FixAbicriticalWith(World, <<"error">>, <<onwarning, onerror>>).ret = "1"
          /\ FixAbicriticalWith(World, <<"error">>, <<onwarning, onerror>>).w.t.status = "READY"
          /\ ~FixAbicriticalWith(World, <<"error">>, <<onwarning, onerror>>).w.d.out

(***************************************************************************)
(* C29: one start() of a startable Task (INIT or READY, no start-lock      *)
(* marker) runs the probe at most twice and fix_abicritical at most once.  *)
(* When the first autoparal_run raises and either fix_abicritical returns  *)
(* 0 or the second autoparal_run raises too, start() returns 0, the Task   *)
(* is ABICRITICAL and the job is not submitted: manager.launch is not      *)
(* called for it and the Task gets no process.                             *)
(***************************************************************************)
C29_ProbeTwiceFixOnce ==
    (task.status \in {"INIT", "READY"} /\ ~wd.lock) =>
    \A inp \in StartInputs :
       LET Count(calls, names) ==
              Cardinality({c \in DOMAIN calls : calls[c] \in names})
           LostAfter(f) ==
              \/ f.ret = "0"
              \/ AutoparalRun(f.w, inp, inp.probe2).exc # "none"
           Lost(a) ==
              /\ a.exc # "none"
              /\ LostAfter(FixAbicritical(Called(a.w, "fix_abicritical"),
                                          inp.handlers))
           Outcome(r) ==
              /\ Count(r.w.calls, {"probe", "probe_crashed"}) <= 2
              /\ Count(r.w.calls, {"fix_abicritical"}) <= 1
              /\ Lost(AutoparalRun([World EXCEPT !.d.lock = TRUE], inp, inp.probe))
                 => /\ r.exc = "none" /\ r.ret = "0"
                    /\ r.w.t.status = "ABICRITICAL"
                    /\ Count(r.w.calls, {"submit"}) = 0
                    /\ r.w.p = proc
       IN Outcome(Start(World, inp))

\* A Task that a start() has left ABICRITICAL behind its start-lock marker
\* without a job, an output file or an abort file: the probe had raised and
\* was not recovered.
C29_Witness ==
    /\ task.status = "ABICRITICAL" /\ wd.lock
    /\ ~task.qjob /\ ~task.dt.submission
    /\ ~wd.out /\ ~wd.abort /\ wd.log = "absent"
    /\ proc = "fake"

(***************************************************************************)
(* C30: a negotiation (autoparal_run with autoparal on and a manager that  *)
(* reaches more than one core, on a Task that is INIT or READY) tries to   *)
(* parse the hints at most twice. When both attempts fail autoparal_run    *)
(* returns 2, it does not raise; select_qadapter is not called, the        *)
(* configurations are not stored, and the input is left with the           *)
(* variables it had, without those of the probe: neither paral_kgb nor the *)
(* variables of a configuration are set. The status is SUB, as the launch  *)
(* of the probe left it, and the files of the probe stay.                  *)
(***************************************************************************)
C30_ParseFailureCode ==
    task.status \in {"INIT", "READY"} =>
    \A inp \in {i \in StartInputs : Negotiates(i)} :
       LET Count(calls, names) ==
              Cardinality({c \in DOMAIN calls : calls[c] \in names})
           AtMostTwice(r) ==
              Count(r.w.calls, {"parse", "parse_failed"}) <= 2
           Aborted(r) ==
              /\ r.exc = "none" /\ r.ret = "2"
              /\ Count(r.w.calls, {"parse_failed"}) = 2
              /\ Count(r.w.calls, {"parse", "select", "select_failed"}) = 0
              /\ r.w.t.vars = task.vars \ AutoparalVars
              /\ r.w.t.pconfs = task.pconfs
              /\ r.w.t.status = "SUB"
              /\ r.w.d.out /\ r.w.d.log = "running"
       IN /\ \A probe \in {"hints", "late", "nohints", "crash"} :
                AtMostTwice(AutoparalRun(World, inp, probe))
          /\ Aborted(AutoparalRun(World, inp, "nohints"))

\* A Task whose start() negotiated, failed twice to parse the hints and then
\* submitted the job: the files of the probe are there, the queue has
\* written nothing, and no configuration was stored or applied.
C30_Witness ==
    /\ task.status = "SUB" /\ task.qjob
    /\ wd.out /\ wd.log = "running" /\ wd.stderr = "empty"
    /\ wd.qerr = "absent" /\ ~wd.qout
    /\ ~task.pconfs /\ task.vars = {}

(***************************************************************************)
(* C31 as stated: a start() whose negotiation fails twice to parse the     *)
(* hints, so that autoparal_run returns 2, does not launch the job and     *)
(* does not return 1.                                                      *)
(***************************************************************************)
C31_AsClaimed ==
    (task.status \in {"INIT", "READY"} /\ ~wd.lock) =>
    \A inp \in {i \in StartInputs : Negotiates(i) /\ i.probe = "nohints"} :
       LET NotLaunched(r) ==
              /\ r.ret # "1"
              /\ \A c \in DOMAIN r.w.calls : r.w.calls[c] # "submit"
       IN NotLaunched(Start(World, inp))

(***************************************************************************)
(* C32: an autoparal_run on a Task that is INIT or READY that runs the     *)
(* probe and returns 0 leaves the status INIT, no output, log or stderr    *)
(* file of the probe, none of the variables of the negotiation request in  *)
(* the input, the parsed hints stored on the Task and the variables of the *)
(* selected configuration in the input.                                    *)
(***************************************************************************)
C32_NegotiationDone ==
    task.status \in {"INIT", "READY"} =>
    \A inp \in {i \in StartInputs : Negotiates(i)} :
    \A probe \in {"hints", "late", "nohints", "crash"} :
       LET Done(r) ==
              (r.exc = "none" /\ r.ret = "0") =>
                 /\ probe \in {"hints", "late"} /\ inp.select = "found"
                 /\ r.w.calls[Len(r.w.calls)] = "select"
                 /\ r.w.t.status = "INIT"
                 /\ ~r.w.d.out /\ r.w.d.log = "absent" /\ r.w.d.stderr = "absent"
                 /\ r.w.t.vars \cap AutoparalVars = {}
                 /\ r.w.t.pconfs
                 /\ "optconf" \in r.w.t.vars
       IN Done(AutoparalRun(World, inp, probe))

\* A Task that start() has submitted after a negotiation: the hints are
\* stored, the variables of the configuration are in the input and the
\* files of the probe are gone.
C32_Witness ==
    /\ task.status = "SUB" /\ task.qjob
    /\ task.pconfs /\ "optconf" \in task.vars
    /\ task.vars \cap AutoparalVars = {}
    /\ ~wd.out /\ wd.log = "absent" /\ wd.stderr = "absent"
    /\ task.num_restarts = 0

(***************************************************************************)
(* C33 as stated: an autoparal_run that runs the probe leaves the queue    *)
(* job of the Task and the timestamp of its submission as they were before *)
(* the probe, and adds no entry for a submission to the history.           *)
(***************************************************************************)
C33_AsClaimed ==
    task.status \in {"INIT", "READY"} =>
    \A inp \in {i \in StartInputs : Negotiates(i)} :
    \A probe \in {"hints", "late", "nohints"} :
       LET NoTrace(r) ==
              /\ r.w.t.qjob = task.qjob
              /\ r.w.t.dt.submission = task.dt.submission
              /\ \A e \in DOMAIN r.w.log : r.w.log[e].st # "SUB"
       IN NoTrace(AutoparalRun(World, inp, probe))

(***************************************************************************)
(* C34 as stated: after a reset_from_scratch, a check_status made before   *)
(* the job is launched again leaves the Task READY: it does not set        *)
(* QCRITICAL, ABICRITICAL or ERROR from what the previous attempt left.    *)
(***************************************************************************)
C34_AsClaimed ==
    task.status # "LOCKED" =>
    \A inp \in CheckInputs :
       LET Clean(c) == c.exc = "none" /\ c.w.t.status = "READY"
           Checked(r) == r.exc = "none" => Clean(CheckStatus(r.w, inp))
       IN Checked(ResetFromScratch(World))

(***************************************************************************)
(* C35 as stated: a restart() of a ScfTask or of a RelaxTask whose output  *)
(* area holds both a WFK and a DEN file takes the WFK file: it moves the   *)
(* WFK file to the input area and sets irdwfk, and leaves the DEN file and *)
(* irdden alone.                                                           *)
(***************************************************************************)
C35_AsClaimed ==
    (task.fam \in {"ScfTask", "RelaxTask"} /\ {"WFK", "DEN"} \subseteq wd.outdata
     /\ wd.indata = {} /\ task.status # "LOCKED") =>
    \A inp \in PlainInputs :
       LET FromWfk(r) ==
              /\ "WFK" \in r.w.d.indata /\ "WFK" \notin r.w.d.outdata
              /\ "irdwfk" \in r.w.t.vars
              /\ "DEN" \notin r.w.d.indata /\ "DEN" \in r.w.d.outdata
              /\ "irdden" \notin r.w.t.vars
       IN FromWfk(FamilyRestart(World, inp))

(***************************************************************************)
(* C40 as stated: the construction of a TaskManager neglects a descriptor  *)
(* exactly when its priority is 0 or it is marked as not enabled. Of the   *)
(* descriptors at hand, whose enabled entry is absent or true, the ones    *)
(* with a positive priority are the adapters of the manager, and the ones  *)
(* with priority 0 are not among them.                                     *)
(***************************************************************************)
C40_AsClaimed ==
    manager.built = "no" =>
       LET AsClaimed(r) ==
              r.exc = "none" =>
                 \A k \in DOMAIN manager.descs :
                    manager.descs[k].priority > 0
                    <=> \E q \in DOMAIN r.qads : r.qads[q] = manager.descs[k]
       IN AsClaimed(TaskManagerInit(manager.descs))

C36_AsClaimed ==
    LET once == MakeLinks(flow, task.fam, task.num_restarts)
        twice == MakeLinks([flow EXCEPT !.links = once.links], task.fam,
                           task.num_restarts)
        Elsewhere(need) ==
            \E f \in flow.files[need.node] :
                /\ f.ext = need.ext
                /\ \A g \in flow.files[need.node] : g.ext = f.ext => g = f
                /\ flow.links[f] \notin {"none", need.node}
    IN /\ once.exc = "none" => twice = once
       /\ (task.num_restarts = 0
           /\ \E k \in DOMAIN FilepathsAndExts(flow.deps) :
                  Elsewhere(FilepathsAndExts(flow.deps)[k]))
          => once.exc # "none"

(* C39: fix_paths on the files of the output directory raises nothing and  *)
(* maps every file with a number appended to the 1WF or 1DEN extension to  *)
(* the same name without the number, ".nc" kept (out_1WF17 to out_1WF), so *)
(* that after fix_ofiles no such file is left.                             *)
C39_AsClaimed ==
    LET r == FixOfiles(flow.files["t"])
    IN /\ r.exc = "none"
       /\ \A f \in flow.files["t"] :
              f.ext \in FixerExts /\ f.pert # 0
              => <<f, [f EXCEPT !.pert = 0]>> \in r.old2new
       /\ \A f \in r.files : f.pert = 0

(* C37: set_status(S_OK) on a Task of a flow with a collector removes,     *)
(* from the files of the Task and of its parents, no file that a child of  *)
(* the node which is not OK needs.                                         *)
C37_AsClaimed ==
    LET Kept(st) ==
            (st.exc = "none" /\ st.w.t.status = "OK" /\ flow.gc # {})
            => \A n \in Nodes :
                   \A f \in flow.files[n]
                            \ CleanOutputFiles(flow, st.w.t.status).files[n] :
                       \A ch \in ChildrenOf(flow, n, st.w.t.status) :
                           ch.ok \/ \A i \in DOMAIN ch.exts :
                                        f \notin NeededFiles(flow.files[n], ch.exts[i])
    IN Kept(SetStatus(World, "OK", "caller", DefaultInp))

====
